---- MODULE Spec2Model ----
(***************************************************************************)
(* State-machine model of the API manager MCP server (src/src/server.ts):  *)
(* the configuration store (apiConfigs), the request history ledger        *)
(* (requestHistory), the activity log, and the tool handlers save_api,     *)
(* make_request, list_apis, get_api, delete_api and the apis://list        *)
(* resource.                                                               *)
(*                                                                         *)
(* Representation.  Names, base URLs and endpoints are sequences of        *)
(* one-character strings, so that prefix/suffix operations are computed.   *)
(* Credential values, header names and header values are strings.  A       *)
(* JavaScript object with optional properties is a function whose domain   *)
(* is the set of properties that are present.                              *)
(***************************************************************************)
EXTENDS Integers, Sequences, FiniteSets, TLC

VARIABLES
    clock,          \* Date.now(), in milliseconds
    apiConfigs,     \* Map<string, ApiConfig>: entries in insertion order
    nextRef,        \* identity of the next ApiConfig object allocated
    requestHistory, \* RequestHistory[]: the ledger
    activityLog,    \* string[]: the activity log
    calls,          \* the make_request invocations, in dispatch order
    result,         \* the value returned by the handler that ran last
    supplied,       \* history: name -> the auth argument save_api stored
    allRecords      \* history: every record ever passed to addRequestToHistory

vars == <<clock, apiConfigs, nextRef, requestHistory, activityLog, calls,
          result, supplied, allRecords>>

-----------------------------------------------------------------------------
(* Bounds of the model and constants of the program *)

MaxClock == 1
MaxLog == 3
MaxAppends == 102
MaxExtra == 2
MaxDocLog == 5
MaxConfigs == 11
MaxCalls == 2

MaxHistory == 100
MaxActivity == 100
DefaultTimeout == 30000

REDACTED == "[REDACTED]"

-----------------------------------------------------------------------------
(* Generic helpers *)

Has(obj, k) == k \in DOMAIN obj

\* JavaScript truthiness of an optional string property
Truthy(obj, k) == Has(obj, k) /\ obj[k] # ""

StartsWith(s, p) == Len(s) >= Len(p) /\ SubSeq(s, 1, Len(p)) = p

Last(s) == s[Len(s)]

\* Array.prototype.shift on a non-empty array
Shift(s) == SubSeq(s, 2, Len(s))

\* Map operations on the entry sequence (insertion order is kept)
MapHas(m, k) == \E i \in 1..Len(m) : m[i].key = k

MapIndex(m, k) == CHOOSE i \in 1..Len(m) : m[i].key = k

MapGet(m, k) == m[MapIndex(m, k)].value

MapKeys(m) == {m[i].key : i \in 1..Len(m)}

MapDelete(m, k) == SelectSeq(m, LAMBDA e : e.key # k)

MapSet(m, k, ref, v) ==
    IF MapHas(m, k)
    THEN [m EXCEPT ![MapIndex(m, k)] = [key |-> k, ref |-> ref, value |-> v]]
    ELSE Append(m, [key |-> k, ref |-> ref, value |-> v])

getApiConfig(name) == MapGet(apiConfigs, name)

-----------------------------------------------------------------------------
(* Activity log and ledger *)

LogPush(log, entry) ==
    LET pushed == Append(log, entry)
    IN  IF Len(pushed) > MaxActivity THEN Shift(pushed) ELSE pushed

addToLog(log, message) == LogPush(log, [ts |-> clock] @@ message)

\* addRequestToHistory without the eviction
addRequestToHistoryUnbounded(h, request) == Append(h, request)

\* addRequestToHistory evicting with pop() in place of shift()
addRequestToHistoryDropNewest(h, request) ==
    IF Len(h) >= MaxHistory THEN h ELSE Append(h, request)

addRequestToHistory(h, request) ==
    LET pushed == Append(h, request)
    IN  IF Len(pushed) > MaxHistory THEN Shift(pushed) ELSE pushed

-----------------------------------------------------------------------------
(* URL validation and normalisation *)

HTTP == <<"h", "t", "t", "p", ":", "/", "/">>
HTTPS == <<"h", "t", "t", "p", "s", ":", "/", "/">>

HostChars == {"a", "b", "x", "."}

\* new URL(url) for the inputs of the model: a scheme, "://" and a
\* non-empty host are required
UrlParses(url) ==
    \E i \in 1..Len(url) :
        /\ i + 3 <= Len(url)
        /\ \A j \in 1..(i - 1) : url[j] \in {"h", "t", "p", "s", "f"}
        /\ i > 1
        /\ SubSeq(url, i, i + 2) = <<":", "/", "/">>
        /\ url[i + 3] \in HostChars

validateUrl(url) ==
    UrlParses(url) /\ (StartsWith(url, HTTP) \/ StartsWith(url, HTTPS))

\* baseUrl.replace(/\/$/, '')
StripTrailingSlash(url) ==
    IF Len(url) > 0 /\ Last(url) = "/" THEN SubSeq(url, 1, Len(url) - 1) ELSE url

-----------------------------------------------------------------------------
(* Redaction *)

SecretFields == {"token", "apiKey", "password"}

HasCredentials(config) == Has(config, "auth") /\ Has(config.auth, "credentials")

\* A redaction that copies the secrets as they are
RedactedCredentialsLeaky(creds) ==
    [k \in {f \in DOMAIN creds : f \in {"username", "headerName"} \/ Truthy(creds, f)}
        |-> creds[k]]

\* The credentials object that sanitizeConfig builds: username and headerName
\* are copied, a truthy secret becomes the marker, undefined values are removed
RedactedCredentials(creds) ==
    [k \in {f \in DOMAIN creds : f \in {"username", "headerName"} \/ Truthy(creds, f)}
        |-> IF k \in SecretFields THEN REDACTED ELSE creds[k]]

\* The object sanitizeConfig returns
sanitizeConfig(config) ==
    IF HasCredentials(config)
    THEN [config EXCEPT !.auth.credentials = RedactedCredentials(@)]
    ELSE config

\* The argument of sanitizeConfig after the call: { ...config } is a shallow
\* copy, so sanitized.auth and config.auth are one object and the assignment
\* to sanitized.auth.credentials replaces the credentials of config as well
ConfigAfterSanitize(config) ==
    IF HasCredentials(config)
    THEN [config EXCEPT !.auth.credentials = RedactedCredentials(@)]
    ELSE config

-----------------------------------------------------------------------------
(* Header and URL builders *)

\* Buffer.from(s).toString('base64'), kept symbolic: an injective encoding
Base64(s) == "base64(" \o s \o ")"

\* obj with the properties of over assigned on top of it
Assign(obj, over) == over @@ obj

AuthHeaders(config) ==
    IF HasCredentials(config) /\ config.auth.type # "none"
    THEN LET type == config.auth.type
             credentials == config.auth.credentials
         IN  CASE type = "bearer" /\ Truthy(credentials, "token") ->
                    "Authorization" :> ("Bearer " \o credentials.token)
               [] type = "api-key" /\ Truthy(credentials, "apiKey")
                                   /\ Truthy(credentials, "headerName") ->
                    credentials.headerName :> credentials.apiKey
               [] type = "basic" /\ Truthy(credentials, "username")
                                 /\ Truthy(credentials, "password") ->
                    "Authorization" :>
                        ("Basic " \o Base64(credentials.username \o ":" \o credentials.password))
               [] OTHER -> <<>>
    ELSE <<>>

\* buildHeaders with the authentication header assigned first
buildHeadersAuthFirst(config, customHeaders) ==
    LET base == Assign("Content-Type" :> "application/json", AuthHeaders(config))
        withConfig == IF Has(config, "headers") THEN Assign(base, config.headers) ELSE base
    IN  Assign(withConfig, customHeaders)

buildHeaders(config, customHeaders) ==
    LET base == "Content-Type" :> "application/json"
        withConfig == IF Has(config, "headers") THEN Assign(base, config.headers) ELSE base
        withCustom == Assign(withConfig, customHeaders)
    IN  Assign(withCustom, AuthHeaders(config))

RECURSIVE QueryString(_)
\* URLSearchParams of the entries whose value is neither undefined nor null;
\* keys and values of the model need no percent-encoding
QueryString(params) ==
    IF params = <<>> THEN <<>>
    ELSE LET p == Head(params)
             rest == QueryString(Tail(params))
         IN  IF p.nullish THEN rest
             ELSE p.key \o <<"=">> \o p.value
                    \o (IF rest = <<>> THEN <<>> ELSE <<"&">> \o rest)

buildUrl(baseUrl, endpoint, queryParams) ==
    LET cleanBase == StripTrailingSlash(baseUrl)
        cleanEndpoint == IF StartsWith(endpoint, <<"/">>) THEN endpoint
                         ELSE <<"/">> \o endpoint
        url == cleanBase \o cleanEndpoint
    IN  IF Len(queryParams) > 0
        THEN url \o <<"?">> \o QueryString(queryParams)
        ELSE url

-----------------------------------------------------------------------------
(* Response parsing *)

\* Whether parseResponse resolves (TRUE) or rejects (FALSE) once the body has
\* been read: response.json() throws on a body that is not JSON, the text
\* branches never throw
ParseSucceeds(response) ==
    IF response.contentType = "application/json" THEN response.bodyIsJson ELSE TRUE

-----------------------------------------------------------------------------
(* Inputs of the model *)

Name1 == <<"a">>
Name2 == <<"b">>
Names == {Name1, Name2}

UrlPlain == HTTP \o <<"x">>
UrlSlash == HTTPS \o <<"x", "/">>
UrlFtp == <<"f", "t", "p", ":", "/", "/", "x">>

Endpoint1 == <<"/", "p">>

AuthBearer == [type |-> "bearer", credentials |-> [token |-> "tok"]]
AuthApiKey == [type |-> "api-key",
               credentials |-> [apiKey |-> "key", headerName |-> "X-Key"]]
AuthBasic == [type |-> "basic",
               credentials |-> [username |-> "usr", password |-> "pwd"]]
AuthNone == [type |-> "none"]
AuthBearerEmpty == [type |-> "bearer", credentials |-> <<>>]
AuthBearerNoCreds == [type |-> "bearer"]
AuthApiKeyNoHeader == [type |-> "api-key", credentials |-> [apiKey |-> "key"]]
AuthBasicNoPassword == [type |-> "basic", credentials |-> [username |-> "usr"]]

\* The arguments of save_api other than the name
SaveInputs ==
    { [baseUrl |-> UrlPlain, auth |-> AuthBearer],
      [baseUrl |-> UrlSlash, auth |-> AuthApiKey, timeout |-> 1,
       headers |-> [Accept |-> "text/plain"]],
      [baseUrl |-> UrlPlain, auth |-> AuthBasic, description |-> "d"],
      [baseUrl |-> UrlFtp, auth |-> AuthNone],
      [baseUrl |-> UrlPlain, auth |-> AuthBearerEmpty],
      [baseUrl |-> UrlPlain, auth |-> AuthBearerNoCreds],
      [baseUrl |-> UrlPlain, auth |-> AuthApiKeyNoHeader],
      [baseUrl |-> UrlPlain, auth |-> AuthBasicNoPassword] }

\* Every input under the first name, one under the second
SaveArgs ==
    {[name |-> Name1] @@ i : i \in SaveInputs}
        \cup {[name |-> Name2, baseUrl |-> UrlPlain, auth |-> AuthBearer]}

RequestArgs ==
    {[apiName |-> n, endpoint |-> Endpoint1, method |-> "GET"] : n \in Names}

Responses ==
    { [status |-> 200, contentType |-> "application/json", bodyIsJson |-> TRUE],
      [status |-> 404, contentType |-> "text/plain", bodyIsJson |-> FALSE],
      [status |-> 500, contentType |-> "application/json", bodyIsJson |-> FALSE] }

-----------------------------------------------------------------------------
(* Initial state: the module has just been loaded *)

Init ==
    /\ clock = 0
    /\ apiConfigs = <<>>
    /\ nextRef = 1
    /\ requestHistory = <<>>
    /\ activityLog = <<>>
    /\ calls = <<>>
    /\ result = [op |-> "none", isError |-> FALSE]
    /\ supplied = <<>>
    /\ allRecords = <<>>

\* Time passes
Tick ==
    /\ clock' = clock + 1
    /\ UNCHANGED <<apiConfigs, nextRef, requestHistory, activityLog, calls,
                   result, supplied, allRecords>>

-----------------------------------------------------------------------------
(* save_api *)

\* Whether the credentials the auth variant requires are missing; the check
\* runs only when a credentials object is present
AuthIncomplete(auth) ==
    /\ auth.type # "none"
    /\ Has(auth, "credentials")
    /\ LET credentials == auth.credentials
       IN  CASE auth.type = "bearer" -> ~Truthy(credentials, "token")
             [] auth.type = "api-key" ->
                    ~Truthy(credentials, "apiKey") \/ ~Truthy(credentials, "headerName")
             [] auth.type = "basic" ->
                    ~Truthy(credentials, "username") \/ ~Truthy(credentials, "password")
             [] OTHER -> FALSE

\* The validations with the baseUrl checked before the name
SaveErrorUrlFirst(args) ==
    IF ~validateUrl(args.baseUrl) THEN "InvalidUrl"
    ELSE IF MapHas(apiConfigs, args.name) THEN "AlreadyExists"
    ELSE IF Has(args, "auth") /\ AuthIncomplete(args.auth) THEN "IncompleteAuth"
    ELSE "ok"

\* The validations of save_api, in the order of the code; "ok" when all pass
SaveError(args) ==
    IF MapHas(apiConfigs, args.name) THEN "AlreadyExists"
    ELSE IF ~validateUrl(args.baseUrl) THEN "InvalidUrl"
    ELSE IF Has(args, "auth") /\ AuthIncomplete(args.auth) THEN "IncompleteAuth"
    ELSE "ok"

NewConfig(args) ==
    LET base == [name |-> args.name,
                 baseUrl |-> StripTrailingSlash(args.baseUrl),
                 createdAt |-> clock,
                 timeout |-> IF Has(args, "timeout") THEN args.timeout
                             ELSE DefaultTimeout]
        description == IF Truthy(args, "description")
                       THEN [description |-> args.description] ELSE <<>>
        auth == IF Has(args, "auth") THEN [auth |-> args.auth] ELSE <<>>
        headers == IF Has(args, "headers") THEN [headers |-> args.headers] ELSE <<>>
    IN  base @@ description @@ auth @@ headers

\* A catch block reached after the configuration was stored: the validation
\* of the baseUrl and of the credentials placed behind apiConfigs.set
SaveRejectedAfterStore(args, error) ==
    /\ activityLog' = addToLog(activityLog,
            [kind |-> "save_error", name |-> args.name, error |-> error])
    /\ result' = [op |-> "save_api", isError |-> TRUE, name |-> args.name,
                  error |-> error]
    /\ apiConfigs' = IF error = "AlreadyExists" THEN apiConfigs
                     ELSE MapSet(apiConfigs, args.name, nextRef, NewConfig(args))
    /\ UNCHANGED <<clock, nextRef, requestHistory, calls, supplied, allRecords>>

\* A catch block of save_api that logs the arguments with the error
SaveRejectedEchoing(args, error) ==
    /\ activityLog' = addToLog(activityLog,
            [kind |-> "save_error", name |-> args.name, error |-> error]
                @@ (IF Has(args, "auth") /\ Has(args.auth, "credentials")
                    THEN args.auth.credentials ELSE <<>>))
    /\ result' = [op |-> "save_api", isError |-> TRUE, name |-> args.name,
                  error |-> error]
    /\ UNCHANGED <<clock, apiConfigs, nextRef, requestHistory, calls,
                   supplied, allRecords>>

\* The catch block of save_api
SaveRejected(args, error) ==
    /\ activityLog' = addToLog(activityLog,
            [kind |-> "save_error", name |-> args.name, error |-> error])
    /\ result' = [op |-> "save_api", isError |-> TRUE, name |-> args.name,
                  error |-> error]
    /\ UNCHANGED <<clock, apiConfigs, nextRef, requestHistory, calls,
                   supplied, allRecords>>

SaveApi(args) ==
    LET error == SaveError(args)
        config == NewConfig(args)
    IN  IF error = "ok"
        THEN /\ apiConfigs' = MapSet(apiConfigs, args.name, nextRef,
                                     ConfigAfterSanitize(config))
             /\ nextRef' = nextRef + 1
             /\ activityLog' = addToLog(activityLog,
                    [kind |-> "saved", name |-> args.name, baseUrl |-> args.baseUrl])
             /\ result' = [op |-> "save_api", isError |-> FALSE, name |-> args.name,
                           config |-> sanitizeConfig(config)]
             /\ supplied' = (args.name :> args) @@ supplied
             /\ UNCHANGED <<clock, requestHistory, calls, allRecords>>
        ELSE SaveRejected(args, error)

-----------------------------------------------------------------------------
(* get_api, delete_api, list_apis, apis://list *)

\* The store after sanitizeConfig has run on the configuration named name
SanitizeStored(m, name) ==
    [i \in 1..Len(m) |->
        IF m[i].key = name
        THEN [m[i] EXCEPT !.value = ConfigAfterSanitize(@)]
        ELSE m[i]]

GetApi(name) ==
    IF MapHas(apiConfigs, name)
    THEN /\ activityLog' = addToLog(activityLog, [kind |-> "retrieved", name |-> name])
         /\ result' = [op |-> "get_api", isError |-> FALSE, name |-> name,
                       config |-> sanitizeConfig(getApiConfig(name))]
         /\ apiConfigs' = SanitizeStored(apiConfigs, name)
         /\ UNCHANGED <<clock, nextRef, requestHistory, calls, supplied, allRecords>>
    ELSE /\ result' = [op |-> "get_api", isError |-> TRUE, name |-> name,
                       error |-> "NotFound"]
         /\ UNCHANGED <<clock, apiConfigs, nextRef, requestHistory, activityLog,
                        calls, supplied, allRecords>>

\* A delete_api that removes the records of the configuration as well
DeleteApiPurging(name) ==
    IF MapHas(apiConfigs, name)
    THEN /\ apiConfigs' = MapDelete(apiConfigs, name)
         /\ requestHistory' = SelectSeq(requestHistory, LAMBDA r : r.apiName # name)
         /\ activityLog' = addToLog(activityLog, [kind |-> "deleted", name |-> name])
         /\ result' = [op |-> "delete_api", isError |-> FALSE, name |-> name]
         /\ supplied' = [n \in DOMAIN supplied \ {name} |-> supplied[n]]
         /\ UNCHANGED <<clock, nextRef, calls, allRecords>>
    ELSE /\ result' = [op |-> "delete_api", isError |-> TRUE, name |-> name,
                       error |-> "NotFound"]
         /\ UNCHANGED <<clock, apiConfigs, nextRef, requestHistory, activityLog,
                        calls, supplied, allRecords>>

DeleteApi(name) ==
    IF MapHas(apiConfigs, name)
    THEN /\ apiConfigs' = MapDelete(apiConfigs, name)
         /\ activityLog' = addToLog(activityLog, [kind |-> "deleted", name |-> name])
         /\ result' = [op |-> "delete_api", isError |-> FALSE, name |-> name]
         /\ supplied' = [n \in DOMAIN supplied \ {name} |-> supplied[n]]
         /\ UNCHANGED <<clock, nextRef, requestHistory, calls, allRecords>>
    ELSE /\ result' = [op |-> "delete_api", isError |-> TRUE, name |-> name,
                       error |-> "NotFound"]
         /\ UNCHANGED <<clock, apiConfigs, nextRef, requestHistory, activityLog,
                        calls, supplied, allRecords>>

\* The comparator of list_apis: negative when a sorts before b
ListCompare(a, b) ==
    IF Has(a, "lastUsed") /\ Has(b, "lastUsed") THEN b.lastUsed - a.lastUsed
    ELSE IF Has(a, "lastUsed") /\ ~Has(b, "lastUsed") THEN -1
    ELSE IF ~Has(a, "lastUsed") /\ Has(b, "lastUsed") THEN 1
    ELSE b.createdAt - a.createdAt

\* Insertion of x behind the elements of the sorted s that do not sort after it
InsertSorted(s, x) ==
    LET keep == {i \in 1..Len(s) : ListCompare(s[i], x) <= 0}
        n == Cardinality(keep)
    IN  SubSeq(s, 1, n) \o <<x>> \o SubSeq(s, n + 1, Len(s))

RECURSIVE SortConfigs(_)
\* Array.prototype.sort with ListCompare: a stable sort
SortConfigs(s) ==
    IF s = <<>> THEN <<>>
    ELSE InsertSorted(SortConfigs(SubSeq(s, 1, Len(s) - 1)), Last(s))

ListSummary(config) ==
    LET base == [name |-> config.name,
                 baseUrl |-> config.baseUrl,
                 authType |-> IF Has(config, "auth") THEN config.auth.type ELSE "none",
                 hasDefaultHeaders |-> Has(config, "headers") /\ DOMAIN config.headers # {},
                 createdAt |-> config.createdAt]
        description == IF Has(config, "description")
                       THEN [description |-> config.description] ELSE <<>>
        lastUsed == IF Has(config, "lastUsed")
                    THEN [lastUsed |-> config.lastUsed] ELSE <<>>
    IN  base @@ description @@ lastUsed

MapValues(m) == [i \in 1..Len(m) |-> m[i].value]

ListApis ==
    LET sorted == SortConfigs(MapValues(apiConfigs))
        apis == [i \in 1..Len(sorted) |-> ListSummary(sorted[i])]
    IN  /\ activityLog' = addToLog(activityLog, [kind |-> "listed", count |-> Len(apis)])
        /\ result' = [op |-> "list_apis", isError |-> FALSE, apis |-> apis]
        /\ UNCHANGED <<clock, apiConfigs, nextRef, requestHistory, calls,
                       supplied, allRecords>>

\* The apis://list resource
ApisListResource ==
    LET apis == [i \in 1..Len(apiConfigs) |-> sanitizeConfig(apiConfigs[i].value)]
    IN  /\ activityLog' = addToLog(activityLog, [kind |-> "resource", uri |-> "apis://list"])
        /\ apiConfigs' = [i \in 1..Len(apiConfigs) |->
                            [apiConfigs[i] EXCEPT !.value = ConfigAfterSanitize(@)]]
        /\ result' = [op |-> "apis://list", isError |-> FALSE, apis |-> apis,
                      stats |-> [totalApis |-> Len(apis),
                                 totalRequests |-> Len(requestHistory),
                                 lastUpdated |-> clock]]
        /\ UNCHANGED <<clock, nextRef, requestHistory, calls, supplied, allRecords>>

-----------------------------------------------------------------------------
(* make_request *)

\* setTimeout(() => controller.abort(), config.timeout || 30000): a stored 0
\* is falsy, and setTimeout takes a delay below 1 as 1
TimerDelay(config) ==
    IF config.timeout = 0 THEN DefaultTimeout
    ELSE IF config.timeout < 1 THEN 1
    ELSE config.timeout

\* if (body && method !== "GET") options.body = JSON.stringify(body)
BodyTruthy(body) == body \notin {"false", "0", "''", "null"}

RequestOptions(args, headers) ==
    LET base == [method |-> args.method, headers |-> headers]
    IN  IF Has(args, "body") /\ BodyTruthy(args.body) /\ args.method # "GET"
        THEN base @@ [body |-> "JSON:" \o args.body]
        ELSE base

\* A catch block that records the rejected request in the ledger
ApiNotFoundRecorded(args) ==
    LET record == [timestamp |-> clock, apiName |-> args.apiName,
                   method |-> args.method, endpoint |-> args.endpoint,
                   status |-> 0, responseTime |-> 0, success |-> FALSE]
    IN  /\ activityLog' = addToLog(activityLog,
                [kind |-> "request_failed", apiName |-> args.apiName,
                 error |-> "ApiNotFound"])
        /\ result' = [op |-> "make_request", isError |-> TRUE,
                      apiName |-> args.apiName, error |-> "ApiNotFound"]
        /\ requestHistory' = addRequestToHistory(requestHistory, record)
        /\ allRecords' = Append(allRecords, record)
        /\ UNCHANGED <<clock, apiConfigs, nextRef, calls, supplied>>

\* The catch block for the error thrown when the configuration is missing
ApiNotFound(args) ==
    /\ activityLog' = addToLog(activityLog,
            [kind |-> "request_failed", apiName |-> args.apiName,
             error |-> "ApiNotFound"])
    /\ result' = [op |-> "make_request", isError |-> TRUE,
                  apiName |-> args.apiName, error |-> "ApiNotFound"]
    /\ UNCHANGED <<clock, apiConfigs, nextRef, requestHistory, calls,
                   supplied, allRecords>>

\* The synchronous part of the handler, up to the await of fetch(url, options)
MakeRequest(args) ==
    IF MapHas(apiConfigs, args.apiName)
    THEN LET config == getApiConfig(args.apiName)
             url == buildUrl(config.baseUrl, args.endpoint,
                             IF Has(args, "queryParams") THEN args.queryParams ELSE <<>>)
             headers == buildHeaders(config,
                             IF Has(args, "headers") THEN args.headers ELSE <<>>)
             call == [apiName |-> args.apiName,
                      endpoint |-> args.endpoint,
                      method |-> args.method,
                      startTime |-> clock,
                      config |-> apiConfigs[MapIndex(apiConfigs, args.apiName)].ref,
                      url |-> url,
                      options |-> RequestOptions(args, headers),
                      deadline |-> clock + TimerDelay(config),
                      timer |-> "pending",
                      pc |-> "fetch"]
         IN  /\ calls' = Append(calls, call)
             /\ activityLog' = addToLog(activityLog,
                    [kind |-> "executing", method |-> args.method, url |-> url,
                     apiName |-> args.apiName])
             /\ UNCHANGED <<clock, apiConfigs, nextRef, requestHistory, result,
                            supplied, allRecords>>
    ELSE ApiNotFound(args)

\* fetch resolves with the response head: clearTimeout runs and the handler
\* suspends again in parseResponse, reading the body
FetchResolve(c, response) ==
    /\ calls[c].pc = "fetch"
    /\ calls' = [calls EXCEPT ![c] =
                    [@ EXCEPT !.pc = "parse", !.timer = "cleared"]
                        @@ [response |-> response]]
    /\ UNCHANGED <<clock, apiConfigs, nextRef, requestHistory, activityLog,
                   result, supplied, allRecords>>

\* The catch block for an error that is not an AbortError
RequestFailed(c, error) ==
    /\ calls' = [calls EXCEPT ![c].pc = "done"]
    /\ activityLog' = addToLog(activityLog,
            [kind |-> "request_failed", apiName |-> calls[c].apiName, error |-> error])
    /\ result' = [op |-> "make_request", isError |-> TRUE, call |-> c,
                  apiName |-> calls[c].apiName, error |-> error]
    /\ UNCHANGED <<clock, apiConfigs, nextRef, requestHistory, supplied, allRecords>>

\* fetch rejects for a transport reason (DNS, connection refused, ...)
FetchReject(c) ==
    /\ calls[c].pc = "fetch"
    /\ RequestFailed(c, "TransportFailure")

\* Statistics that are not updated with the append to the ledger
TouchConfigSkipped(m, ref, now) == m

\* An update of the statistics that stamps createdAt as well
TouchConfigRestamping(m, ref, now) ==
    [i \in 1..Len(m) |->
        IF m[i].ref = ref
        THEN [m[i] EXCEPT !.value = [lastUsed |-> now, createdAt |-> now] @@ @]
        ELSE m[i]]

\* config.lastUsed = ... on the object the handler resolved at its start: it
\* is the stored one only while that object is still in the Map
TouchConfig(m, ref, now) ==
    [i \in 1..Len(m) |->
        IF m[i].ref = ref
        THEN [m[i] EXCEPT !.value = [lastUsed |-> now] @@ @]
        ELSE m[i]]

\* Steps 6 to 8 with the record stamped with the time of the dispatch
ParseSettleDispatchTime(c) ==
    /\ calls[c].pc = "parse"
    /\ IF ParseSucceeds(calls[c].response)
       THEN LET call == calls[c]
                record == [timestamp |-> call.startTime,
                           apiName |-> call.apiName,
                           method |-> call.method,
                           endpoint |-> call.endpoint,
                           status |-> call.response.status,
                           responseTime |-> clock - call.startTime,
                           success |-> call.response.status \in 200..299]
            IN  /\ apiConfigs' = TouchConfig(apiConfigs, call.config, call.startTime)
                /\ requestHistory' = addRequestToHistory(requestHistory, record)
                /\ allRecords' = Append(allRecords, record)
                /\ calls' = [calls EXCEPT ![c].pc = "done"]
                /\ result' = [op |-> "make_request", isError |-> FALSE, call |-> c,
                              apiName |-> call.apiName,
                              status |-> call.response.status,
                              responseTime |-> clock - call.startTime]
                /\ UNCHANGED <<clock, nextRef, activityLog, supplied>>
       ELSE RequestFailed(c, "BodyParseFailure")

\* Steps 6 to 8 with success taken as "not an HTTP error status"
ParseSettleBelow400(c) ==
    /\ calls[c].pc = "parse"
    /\ IF ParseSucceeds(calls[c].response)
       THEN LET call == calls[c]
                record == [timestamp |-> clock,
                           apiName |-> call.apiName,
                           method |-> call.method,
                           endpoint |-> call.endpoint,
                           status |-> call.response.status,
                           responseTime |-> clock - call.startTime,
                           success |-> call.response.status < 400]
            IN  /\ apiConfigs' = TouchConfig(apiConfigs, call.config, clock)
                /\ requestHistory' = addRequestToHistory(requestHistory, record)
                /\ allRecords' = Append(allRecords, record)
                /\ calls' = [calls EXCEPT ![c].pc = "done"]
                /\ result' = [op |-> "make_request", isError |-> FALSE, call |-> c,
                              apiName |-> call.apiName,
                              status |-> call.response.status,
                              responseTime |-> clock - call.startTime]
                /\ UNCHANGED <<clock, nextRef, activityLog, supplied>>
       ELSE RequestFailed(c, "BodyParseFailure")

\* parseResponse settles: steps 6 to 8 of the handler, or the catch block
ParseSettle(c) ==
    /\ calls[c].pc = "parse"
    /\ IF ParseSucceeds(calls[c].response)
       THEN LET call == calls[c]
                record == [timestamp |-> clock,
                           apiName |-> call.apiName,
                           method |-> call.method,
                           endpoint |-> call.endpoint,
                           status |-> call.response.status,
                           responseTime |-> clock - call.startTime,
                           success |-> call.response.status \in 200..299]
            IN  /\ apiConfigs' = TouchConfig(apiConfigs, call.config, clock)
                /\ requestHistory' = addRequestToHistory(requestHistory, record)
                /\ allRecords' = Append(allRecords, record)
                /\ calls' = [calls EXCEPT ![c].pc = "done"]
                /\ result' = [op |-> "make_request", isError |-> FALSE, call |-> c,
                              apiName |-> call.apiName,
                              status |-> call.response.status,
                              responseTime |-> clock - call.startTime]
                /\ UNCHANGED <<clock, nextRef, activityLog, supplied>>
       ELSE RequestFailed(c, "BodyParseFailure")

\* A timeout outcome that is recorded like a response with status 0
RequestTimedOutRecorded(c) ==
    LET call == calls[c]
        record == [timestamp |-> clock, apiName |-> call.apiName,
                   method |-> call.method, endpoint |-> call.endpoint,
                   status |-> 0, responseTime |-> clock - call.startTime,
                   success |-> FALSE]
    IN  /\ calls' = [calls EXCEPT ![c].pc = "done", ![c].timer = "fired"]
        /\ result' = [op |-> "make_request", isError |-> TRUE, call |-> c,
                      apiName |-> call.apiName, error |-> "Timeout",
                      responseTime |-> clock - call.startTime]
        /\ apiConfigs' = TouchConfig(apiConfigs, call.config, clock)
        /\ requestHistory' = addRequestToHistory(requestHistory, record)
        /\ allRecords' = Append(allRecords, record)
        /\ UNCHANGED <<clock, nextRef, activityLog, supplied>>

\* The catch block for an AbortError: the timeout outcome
RequestTimedOut(c) ==
    /\ calls' = [calls EXCEPT ![c].pc = "done", ![c].timer = "fired"]
    /\ result' = [op |-> "make_request", isError |-> TRUE, call |-> c,
                  apiName |-> calls[c].apiName, error |-> "Timeout",
                  responseTime |-> clock - calls[c].startTime]
    /\ UNCHANGED <<clock, apiConfigs, nextRef, requestHistory, activityLog,
                   supplied, allRecords>>

\* A deadline timer that aborts through one controller shared by the calls:
\* every fetch still pending is rejected with an AbortError
TimerFireShared(c) ==
    /\ calls[c].timer = "pending"
    /\ clock >= calls[c].deadline
    /\ calls' = [d \in 1..Len(calls) |->
                    IF d = c THEN [calls[d] EXCEPT !.timer = "fired",
                                       !.pc = IF @ = "fetch" THEN "done" ELSE @]
                    ELSE IF calls[d].pc = "fetch" THEN [calls[d] EXCEPT !.pc = "done"]
                    ELSE calls[d]]
    /\ result' = IF calls[c].pc = "fetch"
                 THEN [op |-> "make_request", isError |-> TRUE, call |-> c,
                       apiName |-> calls[c].apiName, error |-> "Timeout",
                       responseTime |-> clock - calls[c].startTime]
                 ELSE result
    /\ UNCHANGED <<clock, apiConfigs, nextRef, requestHistory, activityLog,
                   supplied, allRecords>>

\* The deadline timer fires: controller.abort() rejects a pending fetch with
\* an AbortError; after the handler has returned the abort has no effect
TimerFire(c) ==
    /\ calls[c].timer = "pending"
    /\ clock >= calls[c].deadline
    /\ IF calls[c].pc = "fetch"
       THEN RequestTimedOut(c)
       ELSE /\ calls' = [calls EXCEPT ![c].timer = "fired"]
            /\ UNCHANGED <<clock, apiConfigs, nextRef, requestHistory,
                           activityLog, result, supplied, allRecords>>

-----------------------------------------------------------------------------
(* The server: every handler may be invoked at any time *)

Continue ==
    \/ \E c \in 1..Len(calls), r \in Responses : FetchResolve(c, r)
    \/ \E c \in 1..Len(calls) : FetchReject(c)
    \/ \E c \in 1..Len(calls) : ParseSettle(c)
    \/ \E c \in 1..Len(calls) : TimerFire(c)

Next ==
    \/ clock < MaxClock /\ Tick
    \/ Len(activityLog) < MaxLog /\ \E args \in SaveArgs : SaveApi(args)
    \/ Len(activityLog) < MaxLog /\ \E name \in Names : GetApi(name)
    \/ Len(activityLog) < MaxLog /\ \E name \in Names : DeleteApi(name)
    \/ Len(activityLog) < MaxLog /\ ListApis
    \/ Len(activityLog) < MaxLog /\ ApisListResource
    \/ Len(activityLog) < MaxLog /\ \E args \in RequestArgs : MakeRequest(args)
    \/ Continue

Spec == Init /\ [][Next]_vars

-----------------------------------------------------------------------------
(* The ledger at capacity: one configuration and one request after another,
   each completed one millisecond after the one before, so that the records
   are pairwise different and the ledger and the log pass their capacity.
   When the ledger has become full the other handlers run as well, MaxExtra
   times, before the next requests evict. *)

LedgerSaveArgs == [name |-> Name1, baseUrl |-> UrlPlain]
LedgerRequestArgs == [apiName |-> Name1, endpoint |-> Endpoint1, method |-> "GET"]
LedgerResponse == [status |-> 200, contentType |-> "application/json", bodyIsJson |-> TRUE]

\* The ledger has just become full and fewer than MaxExtra other operations
\* are in the log
LedgerWindow ==
    /\ Len(allRecords) = MaxHistory
    /\ Cardinality({i \in 1..Len(activityLog) :
            activityLog[i].kind \notin {"saved", "executing"}}) < MaxExtra

NextLedger ==
    \/ apiConfigs = <<>> /\ SaveApi(LedgerSaveArgs)
    \/ LedgerWindow /\ \E name \in Names : GetApi(name)
    \/ LedgerWindow /\ \E name \in Names : DeleteApi(name)
    \/ LedgerWindow /\ ListApis
    \/ LedgerWindow /\ ApisListResource
    \/ \E c \in 1..Len(calls) : FetchReject(c)
    \/ /\ Len(calls) < MaxAppends
       /\ Len(calls) = Len(allRecords)
       /\ clock = Len(allRecords)
       /\ MapHas(apiConfigs, Name1) \/ LedgerWindow
       /\ MakeRequest(LedgerRequestArgs)
    \/ \E c \in 1..Len(calls) : FetchResolve(c, LedgerResponse)
    \/ \E c \in 1..Len(calls) : ParseSettle(c)
    \/ clock < Len(allRecords) /\ Tick

SpecLedger == Init /\ [][NextLedger]_vars

-----------------------------------------------------------------------------
(* Strings of the search and fetch tools *)

UpperChars == <<"A", "B", "C", "D", "E", "F", "G", "H", "I", "J", "K", "L", "M", "N", "O", "P", "Q", "R", "S", "T", "U", "V", "W", "X", "Y", "Z">>
LowerChars == <<"a", "b", "c", "d", "e", "f", "g", "h", "i", "j", "k", "l", "m", "n", "o", "p", "q", "r", "s", "t", "u", "v", "w", "x", "y", "z">>
DigitChars == <<"0", "1", "2", "3", "4", "5", "6", "7", "8", "9">>

InSeq(s, x) == \E i \in 1..Len(s) : s[i] = x

LowerChar(c) ==
    IF InSeq(UpperChars, c)
    THEN LowerChars[CHOOSE i \in 1..Len(UpperChars) : UpperChars[i] = c]
    ELSE c

\* A toLowerCase that leaves the string as it is
toLowerCaseIdentity(s) == s

\* String.prototype.toLowerCase
toLowerCase(s) == [i \in 1..Len(s) |-> LowerChar(s[i])]

\* String.prototype.includes
includes(s, q) ==
    \E i \in 0..(Len(s) - Len(q)) : SubSeq(s, i + 1, i + Len(q)) = q

IsAlnum(c) == InSeq(UpperChars, c) \/ InSeq(LowerChars, c) \/ InSeq(DigitChars, c)

\* endpoint.replace(/[^a-zA-Z0-9]/g, '_')
SanitizeEndpoint(s) == [i \in 1..Len(s) |-> IF IsAlnum(s[i]) THEN s[i] ELSE "_"]

\* s.replace(/_/g, '/')
UnderscoresToSlashes(s) == [i \in 1..Len(s) |-> IF s[i] = "_" THEN "/" ELSE s[i]]

\* The characters of the method, auth type and description strings of the model
Chars(str) ==
    CASE str = "GET" -> <<"G", "E", "T">>
      [] str = "POST" -> <<"P", "O", "S", "T">>
      [] str = "bearer" -> <<"b", "e", "a", "r", "e", "r">>
      [] str = "api-key" -> <<"a", "p", "i", "-", "k", "e", "y">>
      [] str = "basic" -> <<"b", "a", "s", "i", "c">>
      [] str = "none" -> <<"n", "o", "n", "e">>
      [] str = "d" -> <<"d">>

API_PREFIX == <<"a", "p", "i", "-">>
ENDPOINT_PREFIX == <<"e", "n", "d", "p", "o", "i", "n", "t", "-">>
NONE == <<"n", "o", "n", "e">>
UNKNOWN == <<"u", "n", "k", "n", "o", "w", "n">>
API_CONFIGURATION == <<"A", "P", "I", " ", "C", "o", "n", "f", "i", "g", "u", "r", "a", "t", "i", "o", "n">>

\* id.replace(prefix, '') for an id that starts with the prefix
DropPrefix(id, prefix) == SubSeq(id, Len(prefix) + 1, Len(id))

\* The position of the first '-' of s, 0 when it has none
FirstDash(s) ==
    IF InSeq(s, "-")
    THEN CHOOSE i \in 1..Len(s) : s[i] = "-" /\ \A j \in 1..(i - 1) : s[j] # "-"
    ELSE 0

\* s.split('-')[0]
SplitHead(s) == IF FirstDash(s) = 0 THEN s ELSE SubSeq(s, 1, FirstDash(s) - 1)

\* s.split('-').slice(1).join('-')
SplitRest(s) == IF FirstDash(s) = 0 THEN <<>> ELSE SubSeq(s, FirstDash(s) + 1, Len(s))

RECURSIVE Distinct(_)
\* [...new Set(s)]: the distinct elements of s in the order of their first occurrence
Distinct(s) ==
    IF s = <<>> THEN <<>>
    ELSE LET d == Distinct(SubSeq(s, 1, Len(s) - 1))
         IN  IF InSeq(d, Last(s)) THEN d ELSE Append(d, Last(s))

-----------------------------------------------------------------------------
(* Statistics over ledger records *)

Successful(h) == Len(SelectSeq(h, LAMBDA r : r.success))

RECURSIVE SumResponseTime(_)
SumResponseTime(h) ==
    IF h = <<>> THEN 0 ELSE Head(h).responseTime + SumResponseTime(Tail(h))

\* Math.round(x / n) for integers x >= 0 and n > 0
RoundDiv(x, n) == (2 * x + n) \div (2 * n)

\* Math.round((s / t) * 100) for 0 <= s <= t <= 100: the quotient is rounded
\* to a double before it is multiplied, and for 23/40 and 46/80 the product
\* is 57.49999999999999, below the exact 57.5
RoundPercent(s, t) ==
    IF <<s, t>> \in {<<23, 40>>, <<46, 80>>} THEN 57 ELSE RoundDiv(100 * s, t)

SuccessRate(h) == IF Len(h) > 0 THEN RoundPercent(Successful(h), Len(h)) ELSE 0

AverageResponseTime(h) == IF Len(h) > 0 THEN RoundDiv(SumResponseTime(h), Len(h)) ELSE 0

UsageCount(h, n) == Len(SelectSeq(h, LAMBDA r : r.apiName = n))

\* Object.entries(apiUsage).sort(([,a], [,b]) => b - a)[0]?.[0] || 'none':
\* the first name, in the order of first use, among those with the highest
\* count; an empty name is falsy and gives 'none' as well.  (The names of the
\* model are neither integer-like nor properties of Object.prototype.)
MostUsedApi(h) ==
    LET names == Distinct([i \in 1..Len(h) |-> h[i].apiName])
        best == {i \in 1..Len(names) :
                    \A j \in 1..Len(names) :
                        UsageCount(h, names[j]) <= UsageCount(h, names[i])}
        first == names[CHOOSE i \in best : \A j \in best : i <= j]
    IN  IF names = <<>> THEN NONE
        ELSE IF first = <<>> THEN NONE
        ELSE first

\* requestHistory.slice(-10).map(...)
RecentActivity(h) ==
    LET n == IF Len(h) < 10 THEN Len(h) ELSE 10
    IN  [i \in 1..n |->
            LET r == h[Len(h) - n + i]
            IN  [apiName |-> r.apiName, endpoint |-> r.endpoint, method |-> r.method,
                 timestamp |-> r.timestamp, status |-> r.status]]

\* The apis://stats resource
ApisStats ==
    /\ activityLog' = addToLog(activityLog, [kind |-> "resource", uri |-> "apis://stats"])
    /\ result' = [op |-> "apis://stats", isError |-> FALSE,
                  stats |-> [totalApis |-> Len(apiConfigs),
                             totalRequests |-> Len(requestHistory),
                             successfulRequests |-> Successful(requestHistory),
                             successRate |-> SuccessRate(requestHistory),
                             averageResponseTime |-> AverageResponseTime(requestHistory),
                             mostUsedApi |-> MostUsedApi(requestHistory),
                             recentActivity |-> RecentActivity(requestHistory)]]
    /\ UNCHANGED <<clock, apiConfigs, nextRef, requestHistory, calls, supplied,
                   allRecords>>

-----------------------------------------------------------------------------
(* search *)

RECURSIVE Join(_, _)
\* Array.prototype.join
Join(parts, sep) ==
    IF parts = <<>> THEN <<>>
    ELSE IF Len(parts) = 1 THEN parts[1]
    ELSE parts[1] \o sep \o Join(Tail(parts), sep)

\* Whether some record of h for the API named name matches the query
HistoryMatches(h, name, q) ==
    \E i \in 1..Len(h) :
        /\ h[i].apiName = name
        /\ \/ includes(toLowerCase(h[i].endpoint), q)
           \/ includes(toLowerCase(Chars(h[i].method)), q)

\* The match reasons of a configuration with the score each one adds
ApiMatches(name, config, q) ==
    LET all == << [reason |-> <<"n", "a", "m", "e">>, score |-> 10,
                   hit |-> includes(toLowerCase(name), q)],
                  [reason |-> <<"d", "e", "s", "c", "r", "i", "p", "t", "i", "o", "n">>,
                   score |-> 8,
                   hit |-> /\ Has(config, "description")
                           /\ includes(toLowerCase(Chars(config.description)), q)],
                  [reason |-> <<"b", "a", "s", "e", "U", "r", "l">>, score |-> 6,
                   hit |-> includes(toLowerCase(config.baseUrl), q)],
                  [reason |-> <<"a", "u", "t", "h">>, score |-> 4,
                   hit |-> /\ Has(config, "auth")
                           /\ includes(toLowerCase(Chars(config.auth.type)), q)],
                  [reason |-> <<"e", "n", "d", "p", "o", "i", "n", "t", "s">>, score |-> 2,
                   hit |-> HistoryMatches(requestHistory, name, q)] >>
    IN  SelectSeq(all, LAMBDA m : m.hit)

RECURSIVE RelevanceScore(_)
RelevanceScore(matches) ==
    IF matches = <<>> THEN 0 ELSE Head(matches).score + RelevanceScore(Tail(matches))

\* `${name} API - ${config.description || 'API Configuration'} (${reasons})`
ApiTitle(name, config, matches) ==
    name \o <<" ", "A", "P", "I", " ", "-", " ">>
         \o (IF Has(config, "description") THEN Chars(config.description)
             ELSE API_CONFIGURATION)
         \o <<" ", "(">>
         \o Join([i \in 1..Len(matches) |-> matches[i].reason], <<",", " ">>)
         \o <<")">>

RECURSIVE ApiResults(_, _)
\* The first loop of search, over the entries m of the store
ApiResults(m, q) ==
    IF m = <<>> THEN <<>>
    ELSE LET name == Head(m).key
             config == Head(m).value
             matches == ApiMatches(name, config, q)
         IN  (IF RelevanceScore(matches) > 0
              THEN << [id |-> API_PREFIX \o name,
                       title |-> ApiTitle(name, config, matches),
                       url |-> config.baseUrl \o <<"/", "i", "n", "f", "o">>] >>
              ELSE <<>>)
             \o ApiResults(Tail(m), q)

RECURSIVE EndpointResults(_, _, _)
\* The second loop of search, over the records h of the ledger; seen is the
\* set uniqueEndpoints
EndpointResults(h, q, seen) ==
    IF h = <<>> THEN <<>>
    ELSE LET request == Head(h)
             endpointKey == request.apiName \o <<"-">> \o request.endpoint
             hit == /\ \/ includes(toLowerCase(request.endpoint), q)
                       \/ includes(toLowerCase(Chars(request.method)), q)
                    /\ endpointKey \notin seen
         IN  IF hit
             THEN << [id |-> ENDPOINT_PREFIX \o request.apiName \o <<"-">>
                                \o SanitizeEndpoint(request.endpoint),
                      title |-> Chars(request.method) \o <<" ">> \o request.endpoint
                                \o <<" ", "-", " ">> \o request.apiName
                                \o <<" ", "A", "P", "I">>,
                      url |-> (IF MapHas(apiConfigs, request.apiName)
                                  /\ getApiConfig(request.apiName).baseUrl # <<>>
                               THEN getApiConfig(request.apiName).baseUrl
                               ELSE UNKNOWN) \o request.endpoint] >>
                  \o EndpointResults(Tail(h), q, seen \cup {endpointKey})
             ELSE EndpointResults(Tail(h), q, seen)

\* Insertion of x behind the elements of s whose title is not longer: the
\* comparator with its operands exchanged
InsertByTitleShortestFirst(s, x) ==
    LET n == Cardinality({i \in 1..Len(s) : Len(s[i].title) <= Len(x.title)})
    IN  SubSeq(s, 1, n) \o <<x>> \o SubSeq(s, n + 1, Len(s))

\* Insertion of x behind the elements of the sorted s whose title is not shorter
InsertByTitle(s, x) ==
    LET n == Cardinality({i \in 1..Len(s) : Len(s[i].title) >= Len(x.title)})
    IN  SubSeq(s, 1, n) \o <<x>> \o SubSeq(s, n + 1, Len(s))

RECURSIVE SortByTitle(_)
\* searchResults.sort((a, b) => b.title.length - a.title.length): a stable sort
SortByTitle(s) ==
    IF s = <<>> THEN <<>>
    ELSE InsertByTitle(SortByTitle(SubSeq(s, 1, Len(s) - 1)), Last(s))

\* searchResults.slice(0, 10) without the limit
SliceAll(s) == s

\* searchResults.slice(0, 10)
Slice10(s) == IF Len(s) > 10 THEN SubSeq(s, 1, 10) ELSE s

\* The candidates of a search, before the sort and the cut
SearchCandidates(query) ==
    LET queryLower == toLowerCase(query)
    IN  ApiResults(apiConfigs, queryLower)
            \o EndpointResults(requestHistory, queryLower, {})

SearchResults(query) == Slice10(SortByTitle(SearchCandidates(query)))

\* A search that stamps the first configuration of the store as used
SearchTouching(query) ==
    LET limitedResults == SearchResults(query)
    IN  /\ activityLog' = addToLog(activityLog,
                [kind |-> "search", query |-> query, count |-> Len(limitedResults)])
        /\ result' = [op |-> "search", isError |-> FALSE, query |-> query,
                      results |-> limitedResults]
        /\ apiConfigs' = IF apiConfigs = <<>> THEN apiConfigs
                         ELSE TouchConfig(apiConfigs, apiConfigs[1].ref, clock + 1)
        /\ UNCHANGED <<clock, nextRef, requestHistory, calls, supplied, allRecords>>

Search(query) ==
    LET limitedResults == SearchResults(query)
    IN  /\ activityLog' = addToLog(activityLog,
                [kind |-> "search", query |-> query, count |-> Len(limitedResults)])
        /\ result' = [op |-> "search", isError |-> FALSE, query |-> query,
                      results |-> limitedResults]
        /\ UNCHANGED <<clock, apiConfigs, nextRef, requestHistory, calls,
                       supplied, allRecords>>

-----------------------------------------------------------------------------
(* fetch *)

\* The document of an 'api-' id whose configuration is in the store
ApiDocument(id) ==
    LET apiName == DropPrefix(id, API_PREFIX)
        config == getApiConfig(apiName)
        stats == SelectSeq(requestHistory, LAMBDA r : r.apiName = apiName)
    IN  [id |-> id,
         type |-> "api_configuration",
         apiName |-> apiName,
         baseUrl |-> config.baseUrl,
         authType |-> IF Has(config, "auth") THEN config.auth.type ELSE "none",
         createdAt |-> config.createdAt,
         lastUsed |-> IF Has(config, "lastUsed") THEN <<config.lastUsed>> ELSE <<>>,
         requestCount |-> Len(stats),
         successfulRequests |-> Successful(stats),
         successRate |-> SuccessRate(stats),
         averageResponseTime |-> AverageResponseTime(stats),
         endpoints |-> [i \in 1..Len(stats) |->
                          [method |-> stats[i].method, endpoint |-> stats[i].endpoint,
                           status |-> stats[i].status,
                           responseTime |-> stats[i].responseTime]]]

\* The records that the endpoint branch of fetch selects
EndpointHistory(apiName, endpointPart) ==
    SelectSeq(requestHistory,
              LAMBDA r : r.apiName = apiName
                         /\ SanitizeEndpoint(r.endpoint) = endpointPart)

\* The document of an 'endpoint-' id with the records endpointHistory
EndpointDocument(id, apiName, endpointHistory) ==
    LET config == getApiConfig(apiName)
        n == IF Len(endpointHistory) < 5 THEN Len(endpointHistory) ELSE 5
    IN  [id |-> id,
         type |-> "endpoint_info",
         apiName |-> apiName,
         endpoint |-> endpointHistory[1].endpoint,
         baseUrl |-> config.baseUrl,
         authType |-> IF Has(config, "auth") THEN config.auth.type ELSE "none",
         methods |-> Distinct([i \in 1..Len(endpointHistory) |-> endpointHistory[i].method]),
         requestCount |-> Len(endpointHistory),
         successfulRequests |-> Successful(endpointHistory),
         successRate |-> SuccessRate(endpointHistory),
         averageResponseTime |-> AverageResponseTime(endpointHistory),
         recent |-> SubSeq(endpointHistory, Len(endpointHistory) - n + 1,
                           Len(endpointHistory))]

\* A fetch that answers an 'api-' id from the ledger when the configuration
\* is no longer in the store
FetchOutcomeFromLedger(id) ==
    IF StartsWith(id, API_PREFIX)
    THEN LET apiName == DropPrefix(id, API_PREFIX)
             stats == SelectSeq(requestHistory, LAMBDA r : r.apiName = apiName)
         IN  IF MapHas(apiConfigs, apiName) THEN [document |-> ApiDocument(id)]
             ELSE IF Len(stats) > 0
             THEN [document |-> [id |-> id, type |-> "api_configuration",
                                 apiName |-> apiName, requestCount |-> Len(stats)]]
             ELSE [error |-> "DocumentNotFound"]
    ELSE [error |-> "DocumentNotFound"]

\* What the try block of fetch ends with: a document, or the error thrown
FetchOutcome(id) ==
    IF StartsWith(id, ENDPOINT_PREFIX)
    THEN LET rest == DropPrefix(id, ENDPOINT_PREFIX)
             apiName == SplitHead(rest)
             endpointPart == UnderscoresToSlashes(SplitRest(rest))
             endpointHistory == EndpointHistory(apiName, endpointPart)
         IN  IF apiName = <<>> THEN [error |-> "InvalidEndpointId"]
             ELSE IF ~MapHas(apiConfigs, apiName) THEN [error |-> "ApiNotFound"]
             ELSE IF Len(endpointHistory) > 0
             THEN [document |-> EndpointDocument(id, apiName, endpointHistory)]
             ELSE [error |-> "DocumentNotFound"]
    ELSE IF StartsWith(id, API_PREFIX) /\ MapHas(apiConfigs, DropPrefix(id, API_PREFIX))
    THEN [document |-> ApiDocument(id)]
    ELSE [error |-> "DocumentNotFound"]

\* A catch block of fetch that returns the error document without isError
FetchFailedUnflagged(id, error) ==
    /\ activityLog' = addToLog(activityLog,
            [kind |-> "fetch_error", id |-> id, error |-> error])
    /\ result' = [op |-> "fetch", isError |-> FALSE, id |-> id,
                  title |-> "Document Not Found", error |-> error]
    /\ UNCHANGED <<clock, apiConfigs, nextRef, requestHistory, calls, supplied,
                   allRecords>>

\* The catch block of fetch: the error document
FetchFailed(id, error) ==
    /\ activityLog' = addToLog(activityLog,
            [kind |-> "fetch_error", id |-> id, error |-> error])
    /\ result' = [op |-> "fetch", isError |-> TRUE, id |-> id,
                  title |-> "Document Not Found", error |-> error]
    /\ UNCHANGED <<clock, apiConfigs, nextRef, requestHistory, calls, supplied,
                   allRecords>>

Fetch(id) ==
    LET outcome == FetchOutcome(id)
    IN  IF Has(outcome, "document")
        THEN /\ activityLog' = addToLog(activityLog, [kind |-> "fetched", id |-> id])
             /\ result' = [op |-> "fetch", isError |-> FALSE, id |-> id,
                           document |-> outcome.document]
             /\ UNCHANGED <<clock, apiConfigs, nextRef, requestHistory, calls,
                            supplied, allRecords>>
        ELSE FetchFailed(id, outcome.error)

-----------------------------------------------------------------------------
(* The server with its documents: the seven tools and the apis://stats
   resource over a store of up to two configurations, one with an upper-case
   letter in its name and one with the empty name *)

NameG == <<"G", "i">>
NameEmpty == <<>>
DocNames == {NameG, NameEmpty}

EndpointWord == <<"p">>

DocSaveArgs ==
    { [name |-> NameG, baseUrl |-> UrlPlain, auth |-> AuthBearer],
      [name |-> NameG, baseUrl |-> UrlSlash, description |-> "d", timeout |-> 1],
      [name |-> NameEmpty, baseUrl |-> UrlPlain] }

DocRequestArgs ==
    { [apiName |-> NameG, endpoint |-> Endpoint1, method |-> "GET"],
      [apiName |-> NameG, endpoint |-> EndpointWord, method |-> "GET"],
      [apiName |-> NameEmpty, endpoint |-> Endpoint1, method |-> "GET"] }

DocResponses ==
    { [status |-> 200, contentType |-> "application/json", bodyIsJson |-> TRUE],
      [status |-> 404, contentType |-> "text/plain", bodyIsJson |-> FALSE] }

DocQueries == {<<"g", "I">>, <<"p">>}

\* The ids a client fetches: the id of a configuration, an id with neither
\* prefix, and the ids that the search before returned
FetchIds ==
    {API_PREFIX \o NameG, <<"x">>}
        \cup (IF result.op = "search"
              THEN {result.results[i].id : i \in 1..Len(result.results)}
              ELSE {})

\* The client has tried to register two configurations
DocsSetUp ==
    Cardinality({i \in 1..Len(activityLog) :
        activityLog[i].kind \in {"saved", "save_error"}}) >= 2

\* No tool that reads the store or the ledger has run yet
NoReadYet ==
    \A i \in 1..Len(activityLog) :
        activityLog[i].kind \in {"saved", "save_error", "deleted", "executing",
                                 "request_failed"}

\* No make_request is waiting for its response
NoCallInFlight == \A c \in 1..Len(calls) : calls[c].pc = "done"

DocsMayRead == Len(activityLog) < MaxDocLog /\ DocsSetUp /\ NoCallInFlight

\* The client registers configurations, then uses and deletes them, one
\* request at a time, and in the end reads: searches, fetches, lists and
\* takes statistics; reading the body of a response takes a millisecond
NextDocs ==
    \/ /\ Len(activityLog) < MaxDocLog /\ NoReadYet
       /\ \E args \in DocSaveArgs : SaveApi(args)
    \/ /\ Len(activityLog) < MaxDocLog /\ NoReadYet /\ DocsSetUp
       /\ \E name \in DocNames : DeleteApi(name)
    \/ /\ Len(activityLog) < MaxDocLog /\ NoReadYet /\ DocsSetUp /\ NoCallInFlight
       /\ \E args \in DocRequestArgs : MakeRequest(args)
    \/ DocsMayRead /\ GetApi(NameG)
    \/ DocsMayRead /\ ListApis
    \/ DocsMayRead /\ ApisStats
    \/ DocsMayRead /\ \E query \in DocQueries : Search(query)
    \/ DocsMayRead /\ \E id \in FetchIds : Fetch(id)
    \/ \E c \in 1..Len(calls), r \in DocResponses : FetchResolve(c, r)
    \/ \E c \in 1..Len(calls) : clock >= c /\ ParseSettle(c)
    \/ (\E c \in 1..Len(calls) : calls[c].pc = "parse" /\ clock < c) /\ Tick

SpecDocs == Init /\ [][NextDocs]_vars

-----------------------------------------------------------------------------
(* A store that grows past the cap of search: configurations named Gita,
   Gitb, ... are saved one after the other, the first one is used once when
   it has been saved and may be deleted later, and one search is made at some
   point *)

SearchName(i) == <<"G", "i", "t", LowerChars[i]>>

SearchSaveArgs(i) ==
    IF i = 1
    THEN [name |-> SearchName(i), baseUrl |-> UrlPlain, description |-> "d",
          auth |-> AuthBearer]
    ELSE [name |-> SearchName(i), baseUrl |-> UrlPlain]

SearchRequestArgs == [apiName |-> SearchName(1), endpoint |-> Endpoint1, method |-> "GET"]

SearchQueries == {<<"g", "I", "T">>, <<"t", "b">>, <<>>}

NextSearch ==
    \/ /\ nextRef <= MaxConfigs /\ NoReadYet /\ NoCallInFlight
       /\ SaveApi(SearchSaveArgs(nextRef))
    \/ calls = <<>> /\ nextRef = 2 /\ MakeRequest(SearchRequestArgs)
    \/ \E c \in 1..Len(calls) : FetchResolve(c, LedgerResponse)
    \/ \E c \in 1..Len(calls) : ParseSettle(c)
    \/ /\ requestHistory # <<>> /\ NoReadYet /\ MapHas(apiConfigs, SearchName(1))
       /\ DeleteApi(SearchName(1))
    \/ NoReadYet /\ \E query \in SearchQueries : Search(query)

SpecSearch == Init /\ [][NextSearch]_vars

-----------------------------------------------------------------------------
(* The seven tools with inputs that fail: every tool may be called at any
   time, with arguments that are rejected as well as arguments that are
   accepted, and a call may end in a response, a body that does not parse, a
   transport failure or a timeout *)

ToolSaveArgs ==
    { [name |-> Name1, baseUrl |-> UrlPlain, auth |-> AuthBearer, timeout |-> 1],
      [name |-> Name1, baseUrl |-> UrlFtp],
      [name |-> Name1, baseUrl |-> UrlPlain, auth |-> AuthBearerEmpty] }

ToolRequestArgs == [apiName |-> Name1, endpoint |-> EndpointWord, method |-> "GET"]

ToolQuery == <<"P">>

\* An id of a configuration, an id with neither prefix, an 'endpoint-' id
\* without a name, one of an unknown API, and the ids the search before returned
ToolFetchIds ==
    {API_PREFIX \o Name1, <<"x">>, ENDPOINT_PREFIX, ENDPOINT_PREFIX \o Name2}
        \cup (IF result.op = "search"
              THEN {result.results[i].id : i \in 1..Len(result.results)}
              ELSE {})

NextTools ==
    \/ clock < MaxClock /\ Tick
    \/ Len(activityLog) < MaxLog /\ \E args \in ToolSaveArgs : SaveApi(args)
    \/ Len(activityLog) < MaxLog /\ GetApi(Name1)
    \/ Len(activityLog) < MaxLog /\ DeleteApi(Name1)
    \/ Len(activityLog) < MaxLog /\ ListApis
    \/ Len(activityLog) < MaxLog /\ MakeRequest(ToolRequestArgs)
    \/ Len(activityLog) < MaxLog /\ Search(ToolQuery)
    \/ Len(activityLog) < MaxLog /\ \E id \in ToolFetchIds : Fetch(id)
    \/ \E c \in 1..Len(calls), r \in Responses : FetchResolve(c, r)
    \/ \E c \in 1..Len(calls) : FetchReject(c)
    \/ \E c \in 1..Len(calls) : ParseSettle(c)
    \/ \E c \in 1..Len(calls) : TimerFire(c)

SpecTools == Init /\ [][NextTools]_vars

-----------------------------------------------------------------------------
(* Listing: two configurations saved at different times and used, possibly
   within the same millisecond, and list_apis called at any time *)

ListSaveArgs == {[name |-> n, baseUrl |-> UrlPlain] : n \in Names}

NextList ==
    \/ clock < MaxClock /\ Tick
    \/ Len(activityLog) < MaxDocLog /\ \E args \in ListSaveArgs : SaveApi(args)
    \/ Len(activityLog) < MaxDocLog /\ \E args \in RequestArgs : MakeRequest(args)
    \/ Len(activityLog) < MaxDocLog /\ ListApis
    \/ \E c \in 1..Len(calls) : FetchResolve(c, LedgerResponse)
    \/ \E c \in 1..Len(calls) : ParseSettle(c)

SpecList == Init /\ [][NextList]_vars

-----------------------------------------------------------------------------
(* Secrets: one configuration name saved with credentials of every variant,
   the bearer variant with two different tokens, and with incomplete
   credentials; every handler that writes to the activity log runs. *)

SecretSaveArgs ==
    { [name |-> Name1, baseUrl |-> UrlPlain, auth |-> AuthBearer],
      [name |-> Name1, baseUrl |-> UrlPlain,
       auth |-> [type |-> "bearer", credentials |-> [token |-> "tok2"]],
       timeout |-> 1],
      [name |-> Name1, baseUrl |-> UrlPlain, auth |-> AuthApiKey],
      [name |-> Name1, baseUrl |-> UrlPlain, auth |-> AuthBasic],
      [name |-> Name1, baseUrl |-> UrlPlain, auth |-> AuthBearerEmpty],
      [name |-> Name1, baseUrl |-> UrlPlain, auth |-> AuthApiKeyNoHeader] }

SecretRequestArgs == [apiName |-> Name1, endpoint |-> Endpoint1, method |-> "GET"]

NextSecrets ==
    \/ clock < MaxClock /\ Tick
    \/ Len(activityLog) < MaxLog /\ \E args \in SecretSaveArgs : SaveApi(args)
    \/ Len(activityLog) < MaxLog /\ GetApi(Name1)
    \/ Len(activityLog) < MaxLog /\ DeleteApi(Name1)
    \/ Len(activityLog) < MaxLog /\ ApisListResource
    \/ Len(activityLog) < MaxLog /\ MakeRequest(SecretRequestArgs)
    \/ Len(activityLog) < MaxLog /\ Search(ToolQuery)
    \/ Len(activityLog) < MaxLog /\ Fetch(API_PREFIX \o Name1)
    \/ \E c \in 1..Len(calls), r \in DocResponses : FetchResolve(c, r)
    \/ \E c \in 1..Len(calls) : FetchReject(c)
    \/ \E c \in 1..Len(calls) : ParseSettle(c)
    \/ \E c \in 1..Len(calls) : TimerFire(c)

SpecSecrets == Init /\ [][NextSecrets]_vars

-----------------------------------------------------------------------------
(* Headers: one configuration saved with each authentication variant, with
   and without default headers that use the names of the authentication
   headers, and requests with per-call headers that use them as well. *)

DefaultHeaders ==
    ("Authorization" :> "d") @@ ("X-Key" :> "d") @@ ("Accept" :> "d")

HeaderSaveArgs ==
    LET auths == {AuthBearer, AuthApiKey, AuthBasic, AuthNone}
        plain == [name |-> Name1, baseUrl |-> UrlPlain]
    IN  {plain, plain @@ [headers |-> DefaultHeaders]}
            \cup {plain @@ [auth |-> a] : a \in auths}
            \cup {plain @@ [auth |-> a, headers |-> DefaultHeaders] : a \in auths}

CustomHeaders ==
    { "Authorization" :> "c",
      ("authorization" :> "c") @@ ("Content-Type" :> "c"),
      ("X-Key" :> "c") @@ ("Accept" :> "c") }

HeaderRequestArgs ==
    LET plain == [apiName |-> Name1, endpoint |-> Endpoint1, method |-> "GET"]
    IN  {plain} \cup {plain @@ [headers |-> h] : h \in CustomHeaders}

NextHeaders ==
    \/ Len(activityLog) < MaxLog /\ \E args \in HeaderSaveArgs : SaveApi(args)
    \/ Len(activityLog) < MaxLog /\ DeleteApi(Name1)
    \/ Len(activityLog) < MaxLog /\ \E args \in HeaderRequestArgs : MakeRequest(args)
    \/ \E c \in 1..Len(calls) : FetchResolve(c, LedgerResponse)
    \/ \E c \in 1..Len(calls) : ParseSettle(c)

SpecHeaders == Init /\ [][NextHeaders]_vars

-----------------------------------------------------------------------------
(* Status codes: requests against one configuration answered with status
   codes on both sides of the bounds of the 2xx range. *)

StatusCodes == {200, 204, 299, 300, 404, 500}

StatusResponses ==
    {[status |-> st, contentType |-> "text/plain", bodyIsJson |-> FALSE] :
        st \in StatusCodes}

NextStatus ==
    \/ Len(activityLog) < MaxLog /\ SaveApi(LedgerSaveArgs)
    \/ Len(activityLog) < MaxLog /\ MakeRequest(LedgerRequestArgs)
    \/ \E c \in 1..Len(calls), r \in StatusResponses : FetchResolve(c, r)
    \/ \E c \in 1..Len(calls) : ParseSettle(c)

SpecStatus == Init /\ [][NextStatus]_vars

-----------------------------------------------------------------------------
(* Base URLs: two names saved with base URLs of both accepted schemes, with
   no, one and two trailing slashes, and of a scheme that is refused. *)

UrlSlashes == HTTPS \o <<"x", "/", "/">>

UrlSaveArgs ==
    {[name |-> n, baseUrl |-> u] :
        n \in Names, u \in {UrlPlain, UrlSlash, UrlSlashes, UrlFtp}}

NextUrls ==
    \/ Len(activityLog) < MaxLog /\ \E args \in UrlSaveArgs : SaveApi(args)
    \/ Len(activityLog) < MaxLog /\ \E name \in Names : GetApi(name)
    \/ Len(activityLog) < MaxLog /\ \E name \in Names : DeleteApi(name)

SpecUrls == Init /\ [][NextUrls]_vars

-----------------------------------------------------------------------------
(* Timeouts: one configuration saved without a timeout and with the numbers
   z.number() accepts on both sides of zero, and requests against it. *)

TimeoutSaveArgs ==
    {LedgerSaveArgs} \cup {LedgerSaveArgs @@ [timeout |-> t] : t \in {-1, 0, 1}}

NextTimeouts ==
    \/ clock < MaxClock /\ Tick
    \/ Len(activityLog) < MaxLog /\ \E args \in TimeoutSaveArgs : SaveApi(args)
    \/ Len(activityLog) < MaxLog /\ DeleteApi(Name1)
    \/ Len(activityLog) < MaxLog /\ MakeRequest(LedgerRequestArgs)
    \/ \E c \in 1..Len(calls) : FetchResolve(c, LedgerResponse)
    \/ \E c \in 1..Len(calls) : ParseSettle(c)
    \/ \E c \in 1..Len(calls) : TimerFire(c)

SpecTimeouts == Init /\ [][NextTimeouts]_vars

-----------------------------------------------------------------------------
(* Stalling remotes: requests against a configuration with a timeout of one
   millisecond, dispatched while the model's time can still reach their
   deadline.  Time passes and a due timer fires (the event loop runs them);
   whether and when the remote answers, fails or delivers the body is left
   open, so there is no fairness on those steps. *)

LiveSaveArgs == LedgerSaveArgs @@ [timeout |-> 1]

LiveTick == clock < MaxClock /\ Tick

LiveTimerFire(c) == c \in 1..Len(calls) /\ TimerFire(c)

NextLive ==
    \/ LiveTick
    \/ apiConfigs = <<>> /\ SaveApi(LiveSaveArgs)
    \/ /\ Len(calls) < MaxLog /\ clock < MaxClock /\ MapHas(apiConfigs, Name1)
       /\ MakeRequest(LedgerRequestArgs)
    \/ \E c \in 1..Len(calls), r \in DocResponses : FetchResolve(c, r)
    \/ \E c \in 1..Len(calls) : FetchReject(c)
    \/ \E c \in 1..Len(calls) : ParseSettle(c)
    \/ \E c \in 1..MaxLog : LiveTimerFire(c)

SpecLive ==
    /\ Init /\ [][NextLive]_vars
    /\ WF_vars(LiveTick)
    /\ \A c \in 1..MaxLog : WF_vars(LiveTimerFire(c))

-----------------------------------------------------------------------------
(* Concurrent requests: two configurations with a timeout of one millisecond
   and up to MaxCalls requests in flight at once, against the same or
   different configurations. *)

ConcurrentSaveArgs ==
    {[name |-> n, baseUrl |-> UrlPlain, timeout |-> 1] : n \in Names}

NextConcurrent ==
    \/ clock < MaxClock /\ Tick
    \/ \E args \in ConcurrentSaveArgs :
          ~MapHas(apiConfigs, args.name) /\ calls = <<>> /\ SaveApi(args)
    \/ \E args \in RequestArgs :
          /\ Len(calls) < MaxCalls /\ MapHas(apiConfigs, args.apiName)
          /\ MakeRequest(args)
    \/ \E c \in 1..Len(calls) : FetchResolve(c, LedgerResponse)
    \/ \E c \in 1..Len(calls) : FetchReject(c)
    \/ \E c \in 1..Len(calls) : ParseSettle(c)
    \/ \E c \in 1..Len(calls) : TimerFire(c)

SpecConcurrent == Init /\ [][NextConcurrent]_vars

-----------------------------------------------------------------------------
(* Pairs of a name and an endpoint: names and endpoints with and without a
   '-', requested one after the other and then searched. *)

NameShort == <<"a">>
NameLong == <<"a", "-", "b">>
EndpointShort == <<"c">>
EndpointLong == <<"b", "-", "c">>

PairSaveArgs == {[name |-> n, baseUrl |-> UrlPlain] : n \in {NameShort, NameLong}}

PairRequestArgs ==
    { [apiName |-> NameShort, endpoint |-> EndpointLong, method |-> "GET"],
      [apiName |-> NameLong, endpoint |-> EndpointShort, method |-> "GET"],
      [apiName |-> NameShort, endpoint |-> EndpointShort, method |-> "POST"] }

PairQueries == {<<"C">>, <<"g", "e", "t">>}

NextPairs ==
    \/ \E args \in PairSaveArgs :
          ~MapHas(apiConfigs, args.name) /\ NoReadYet /\ SaveApi(args)
    \/ \E args \in PairRequestArgs :
          /\ Len(calls) <= MaxCalls /\ NoCallInFlight /\ NoReadYet
          /\ MapHas(apiConfigs, args.apiName)
          /\ MakeRequest(args)
    \/ \E c \in 1..Len(calls) : FetchResolve(c, LedgerResponse)
    \/ \E c \in 1..Len(calls) : ParseSettle(c)
    \/ NoCallInFlight /\ NoReadYet /\ \E query \in PairQueries : Search(query)

SpecPairs == Init /\ [][NextPairs]_vars

-----------------------------------------------------------------------------
(* More candidates than the cap of search, the last one saved with a
   description and an authentication: its title is the longest for a query
   that matches everything and the shortest for one that matches names *)

OrderSaveArgs(i) ==
    IF i = MaxConfigs
    THEN [name |-> SearchName(i), baseUrl |-> UrlPlain, description |-> "d",
          auth |-> AuthBearer]
    ELSE [name |-> SearchName(i), baseUrl |-> UrlPlain]

OrderQueries == {<<"g", "I", "T">>, <<>>, <<"G", "E">>}

NextOrder ==
    \/ /\ nextRef <= MaxConfigs /\ NoReadYet /\ NoCallInFlight
       /\ SaveApi(OrderSaveArgs(nextRef))
    \/ /\ Len(calls) < MaxCalls /\ NoCallInFlight /\ NoReadYet /\ nextRef \in {2, 3}
       /\ MakeRequest(SearchRequestArgs)
    \/ \E c \in 1..Len(calls) : FetchResolve(c, LedgerResponse)
    \/ \E c \in 1..Len(calls) : ParseSettle(c)
    \/ NoCallInFlight /\ NoReadYet /\ \E query \in OrderQueries : Search(query)

SpecOrder == Init /\ [][NextOrder]_vars

-----------------------------------------------------------------------------
(* Records whose configuration is gone: one name is saved, requested, deleted
   and saved again in any order, also while a call is in flight, and the
   client searches and fetches in between *)

DanglingFetchIds ==
    { API_PREFIX \o Name1,
      ENDPOINT_PREFIX \o Name1 \o <<"-">> \o EndpointWord,
      ENDPOINT_PREFIX \o Name2 \o <<"-">> \o EndpointWord }

DanglingMayLog == Len(activityLog) < MaxDocLog

NextDangling ==
    \/ DanglingMayLog /\ SaveApi(LedgerSaveArgs)
    \/ DanglingMayLog /\ DeleteApi(Name1)
    \/ DanglingMayLog /\ Len(calls) < MaxCalls /\ MakeRequest(ToolRequestArgs)
    \/ \E c \in 1..Len(calls) : FetchResolve(c, LedgerResponse)
    \/ \E c \in 1..Len(calls) : ParseSettle(c)
    \/ DanglingMayLog /\ Search(ToolQuery)
    \/ DanglingMayLog /\ \E id \in DanglingFetchIds : Fetch(id)

SpecDangling == Init /\ [][NextDangling]_vars

-----------------------------------------------------------------------------
(* Request bodies: GET and POST requests without a body, with an object and
   with each of the values false, 0, '' and null as the body *)

BodyValues == {"{}", "false", "0", "''", "null"}

BodyRequestArgs ==
    LET plain == {[apiName |-> Name1, endpoint |-> Endpoint1, method |-> m] :
                     m \in {"GET", "POST"}}
    IN  plain \cup {args @@ [body |-> b] : args \in plain, b \in BodyValues}

NextBodies ==
    \/ Len(activityLog) < MaxLog /\ SaveApi(LedgerSaveArgs)
    \/ Len(activityLog) < MaxLog /\ DeleteApi(Name1)
    \/ Len(activityLog) < MaxLog /\ \E args \in BodyRequestArgs : MakeRequest(args)
    \/ \E c \in 1..Len(calls) : FetchResolve(c, LedgerResponse)
    \/ \E c \in 1..Len(calls) : ParseSettle(c)

SpecBodies == Init /\ [][NextBodies]_vars

-----------------------------------------------------------------------------
(* Query parameters: endpoints with and without the leading slash, requested
   with no parameters, with values, with null values and with both, in both
   orders *)

ParamA == [key |-> <<"a">>, value |-> <<"1">>, nullish |-> FALSE]
ParamB == [key |-> <<"b">>, value |-> <<"2">>, nullish |-> FALSE]
ParamANull == [key |-> <<"a">>, value |-> <<>>, nullish |-> TRUE]
ParamBNull == [key |-> <<"b">>, value |-> <<>>, nullish |-> TRUE]

ParamLists ==
    { <<>>, <<ParamA>>, <<ParamANull>>, <<ParamA, ParamB>>, <<ParamB, ParamA>>,
      <<ParamA, ParamBNull>>, <<ParamANull, ParamB>>, <<ParamANull, ParamBNull>> }

ParamRequestArgs ==
    LET plain == {[apiName |-> Name1, endpoint |-> e, method |-> "GET"] :
                     e \in {Endpoint1, EndpointWord}}
    IN  plain \cup {args @@ [queryParams |-> q] : args \in plain, q \in ParamLists}

ParamSaveArgs == {[name |-> Name1, baseUrl |-> u] : u \in {UrlPlain, UrlSlash}}

NextParams ==
    \/ Len(activityLog) < MaxLog /\ \E args \in ParamSaveArgs : SaveApi(args)
    \/ Len(activityLog) < MaxLog /\ DeleteApi(Name1)
    \/ Len(activityLog) < MaxLog /\ \E args \in ParamRequestArgs : MakeRequest(args)
    \/ \E c \in 1..Len(calls) : FetchResolve(c, LedgerResponse)
    \/ \E c \in 1..Len(calls) : ParseSettle(c)

SpecParams == Init /\ [][NextParams]_vars

-----------------------------------------------------------------------------
(* Endpoints that differ in a character that is not alphanumeric: '/p', '_p'
   and 'p' of one API, requested one after the other and then searched *)

EndpointUnderscore == <<"_", "p">>

IdRequestArgs ==
    {[apiName |-> Name1, endpoint |-> e, method |-> "GET"] :
        e \in {Endpoint1, EndpointUnderscore, EndpointWord}}

NextIds ==
    \/ ~MapHas(apiConfigs, Name1) /\ NoReadYet /\ SaveApi(LedgerSaveArgs)
    \/ \E args \in IdRequestArgs :
          /\ Len(calls) <= MaxCalls /\ NoCallInFlight /\ NoReadYet
          /\ MapHas(apiConfigs, Name1)
          /\ MakeRequest(args)
    \/ \E c \in 1..Len(calls) : FetchResolve(c, LedgerResponse)
    \/ \E c \in 1..Len(calls) : ParseSettle(c)
    \/ NoCallInFlight /\ NoReadYet /\ Search(ToolQuery)

SpecIds == Init /\ [][NextIds]_vars

-----------------------------------------------------------------------------
(* Claims *)

\* The secret fields among the credentials save_api was given for name n
SuppliedSecrets(n) ==
    IF Has(supplied[n], "auth") /\ Has(supplied[n].auth, "credentials")
    THEN {f \in SecretFields : Truthy(supplied[n].auth.credentials, f)}
    ELSE {}

\* C1: from a successful save_api until the delete_api of the configuration,
\* the token, apiKey and password held in the store are the values that were
\* supplied to save_api.
C1_StoredSecretsAreSupplied ==
    \A i \in 1..Len(apiConfigs) :
        LET n == apiConfigs[i].key
            config == apiConfigs[i].value
        IN  \A f \in SuppliedSecrets(n) :
                /\ HasCredentials(config)
                /\ Has(config.auth.credentials, f)
                /\ config.auth.credentials[f] = supplied[n].auth.credentials[f]

\* The authentication header the credentials given to save_api call for
ExpectedAuthHeaders(args) ==
    IF Has(args, "auth") /\ Has(args.auth, "credentials")
    THEN LET credentials == args.auth.credentials
         IN  CASE args.auth.type = "bearer" ->
                    "Authorization" :> ("Bearer " \o credentials.token)
               [] args.auth.type = "api-key" ->
                    credentials.headerName :> credentials.apiKey
               [] args.auth.type = "basic" ->
                    "Authorization" :>
                        ("Basic " \o Base64(credentials.username \o ":" \o credentials.password))
               [] OTHER -> <<>>
    ELSE <<>>

\* C2: every make_request dispatches an outbound request that carries the
\* authentication header built from the credentials given to save_api:
\* 'Bearer t', header h with value k, or 'Basic base64(u:p)'.
C2_AuthHeaderFromSuppliedCredentials ==
    [][Len(calls') = Len(calls) + 1 =>
        LET call == calls'[Len(calls')]
            expected == ExpectedAuthHeaders(supplied[call.apiName])
        IN  \A h \in DOMAIN expected :
                /\ h \in DOMAIN call.options.headers
                /\ call.options.headers[h] = expected[h]]_vars

\* The configurations rendered in the value the last handler returned
RenderedConfigs ==
    IF result.op \in {"save_api", "get_api"} /\ ~result.isError THEN {result.config}
    ELSE IF result.op = "apis://list" THEN {result.apis[i] : i \in 1..Len(result.apis)}
    ELSE {}

\* C3: what save_api, get_api, list_apis and apis://list return never holds a
\* token, apiKey or password given to save_api: a rendered secret field is the
\* marker '[REDACTED]', a list summary has no credentials at all, and username
\* and headerName are rendered with the values that were supplied.
C3_OutputIsRedacted ==
    /\ \A r \in RenderedConfigs :
          HasCredentials(r) =>
              LET shown == r.auth.credentials
                  given == supplied[r.name].auth.credentials
              IN  /\ \A f \in DOMAIN shown \cap SecretFields : shown[f] = REDACTED
                  /\ \A f \in DOMAIN shown :
                        \A g \in SuppliedSecrets(r.name) : shown[f] # given[g]
                  /\ \A f \in {"username", "headerName"} :
                        Has(given, f) => Has(shown, f) /\ shown[f] = given[f]
    /\ result.op = "list_apis" =>
          \A i \in 1..Len(result.apis) :
              DOMAIN result.apis[i] \subseteq
                  {"name", "baseUrl", "description", "authType",
                   "hasDefaultHeaders", "createdAt", "lastUsed"}

\* C3 witness: get_api has rendered a configuration saved with basic
\* credentials, the password as the marker and the username as supplied.
C3_Witness ==
    /\ result.op = "get_api"
    /\ ~result.isError
    /\ HasCredentials(result.config)
    /\ "password" \in SuppliedSecrets(result.name)
    /\ result.config.auth.credentials.password = REDACTED
    /\ result.config.auth.credentials.username = "usr"

\* C4: the ledger and the activity log never hold more than 100 entries.
C4_LedgerAndLogBounded ==
    /\ Len(requestHistory) <= 100
    /\ Len(activityLog) <= 100

\* C4 witness: more than 100 records were appended and more than 100 entries
\* were logged, and both buffers hold 100.
C4_Witness ==
    /\ Len(allRecords) > 100
    /\ Len(requestHistory) = 100
    /\ Len(activityLog) = 100

\* The last n elements of s
LastN(s, n) == SubSeq(s, Len(s) - n + 1, Len(s))

\* C5: the ledger is the last min(n, 100) of the n records ever appended, in
\* the order of their appending.
C5_LedgerIsSuffixOfAppended ==
    requestHistory =
        LastN(allRecords, IF Len(allRecords) < 100 THEN Len(allRecords) ELSE 100)

\* C5 witness: the 101st append evicted the oldest record and no other: the
\* ledger starts with the second record appended and ends with the 101st.
C5_Witness ==
    /\ Len(allRecords) = 101
    /\ Len(requestHistory) = 100
    /\ requestHistory[1] = allRecords[2]
    /\ requestHistory[1] # allRecords[1]
    /\ requestHistory[100] = allRecords[101]

\* A step in which the handler of save_api ran, and the name it was given
SaveStep ==
    /\ Len(activityLog') = Len(activityLog) + 1
    /\ Last(activityLog').kind \in {"saved", "save_error"}

SavedName == Last(activityLog').name

\* C6: save_api with a name that is in the store fails with AlreadyExists,
\* whatever its other arguments, and changes no stored configuration.
C6_DuplicateNameRejected ==
    [][SaveStep /\ MapHas(apiConfigs, SavedName) =>
        /\ result'.op = "save_api"
        /\ result'.isError
        /\ result'.error = "AlreadyExists"
        /\ apiConfigs' = apiConfigs]_vars

\* C6 witness: a save_api was rejected as a duplicate of a configuration
\* that is in the store and has been used.
C6_Witness ==
    /\ result.op = "save_api"
    /\ result.isError
    /\ result.error = "AlreadyExists"
    /\ MapHas(apiConfigs, result.name)
    /\ Has(MapGet(apiConfigs, result.name), "lastUsed")
    /\ Last(activityLog).kind = "save_error"
    /\ Last(activityLog).name = result.name

\* The credential fields an auth variant requires
RequiredCredentials(type) ==
    CASE type = "bearer" -> {"token"}
      [] type = "api-key" -> {"apiKey", "headerName"}
      [] type = "basic" -> {"username", "password"}
      [] OTHER -> {}

\* C7: save_api stores no configuration whose auth variant lacks a credential
\* it requires, whether the credentials object is absent or incomplete: every
\* stored configuration with a non-none auth type carries all required fields.
C7_StoredAuthIsComplete ==
    \A i \in 1..Len(apiConfigs) :
        LET config == apiConfigs[i].value
        IN  Has(config, "auth") /\ config.auth.type # "none" =>
                /\ Has(config.auth, "credentials")
                /\ \A f \in RequiredCredentials(config.auth.type) :
                      Truthy(config.auth.credentials, f)

\* C8: a rejected save_api, get_api or delete_api leaves the store and the
\* ledger as they were.
C8_RejectionsChangeNothing ==
    [][(/\ result'.isError
        /\ result'.op \in {"save_api", "get_api", "delete_api"}
        /\ result'.error \in {"AlreadyExists", "InvalidUrl", "IncompleteAuth", "NotFound"})
        => /\ apiConfigs' = apiConfigs
           /\ requestHistory' = requestHistory]_vars

\* C8 witness: a save_api was rejected for its baseUrl or its credentials while
\* a configuration is stored and a record is in the ledger.
C8_Witness ==
    /\ result.op = "save_api"
    /\ result.isError
    /\ result.error \in {"InvalidUrl", "IncompleteAuth"}
    /\ apiConfigs # <<>>
    /\ requestHistory # <<>>

\* A step in which the synchronous part of make_request ran
RequestStep ==
    /\ Len(activityLog') = Len(activityLog) + 1
    /\ \/ Last(activityLog').kind = "executing"
       \/ /\ Last(activityLog').kind = "request_failed"
          /\ Last(activityLog').error = "ApiNotFound"

\* C9: make_request for a name that is not in the store returns the error
\* ApiNotFound, dispatches no call, starts no timer, appends no record and
\* changes no configuration.
C9_UnknownApiRejected ==
    [][RequestStep /\ ~MapHas(apiConfigs, Last(activityLog').apiName) =>
        /\ result'.op = "make_request"
        /\ result'.isError
        /\ result'.error = "ApiNotFound"
        /\ calls' = calls
        /\ requestHistory' = requestHistory
        /\ apiConfigs' = apiConfigs]_vars

\* C9 witness: make_request was rejected for a missing name while another
\* configuration is stored, a call is in flight and the ledger holds a record.
C9_Witness ==
    /\ result.op = "make_request"
    /\ result.isError
    /\ result.error = "ApiNotFound"
    /\ ~MapHas(apiConfigs, result.apiName)
    /\ apiConfigs # <<>>
    /\ requestHistory # <<>>

\* C10: when a make_request ends in a timeout or a transport failure it
\* returns an error and the step changes neither the ledger nor any
\* configuration (lastUsed included); its dispatch changes neither as well.
C10_FailedCallChangesNothing ==
    [][/\ Len(calls') = Len(calls) + 1 =>
            /\ requestHistory' = requestHistory
            /\ apiConfigs' = apiConfigs
       /\ \A c \in 1..Len(calls) :
            (Len(calls') = Len(calls) /\ calls[c].pc = "fetch" /\ calls'[c].pc = "done") =>
                /\ result'.op = "make_request"
                /\ result'.isError
                /\ result'.error \in {"Timeout", "TransportFailure"}
                /\ requestHistory' = requestHistory
                /\ apiConfigs' = apiConfigs]_vars

\* C10 witness: a call has timed out after another call had completed, with
\* the ledger holding that record and the configuration its lastUsed.
C10_Witness ==
    /\ result.op = "make_request"
    /\ result.isError
    /\ result.error = "Timeout"
    /\ \E c \in 1..Len(calls) : calls[c].pc = "done" /\ calls[c].timer = "fired"
    /\ Len(requestHistory) = 1
    /\ \E i \in 1..Len(apiConfigs) : Has(apiConfigs[i].value, "lastUsed")

\* C11: every make_request whose call completes with an HTTP response before
\* the deadline, whatever the status and the body, appends exactly one record
\* carrying its apiName, method, endpoint and status, sets the lastUsed of the
\* configuration it resolved to the timestamp of the record, and returns a
\* result that is not an error, with the status and the response time.
C11_ResponseIsRecorded ==
    [][\A c \in 1..Len(calls) :
        (Len(calls') = Len(calls) /\ calls[c].pc = "parse" /\ calls'[c].pc = "done") =>
            LET call == calls[c]
            IN  /\ Len(allRecords') = Len(allRecords) + 1
                /\ requestHistory' # <<>>
                /\ Last(requestHistory') = Last(allRecords')
                /\ Last(allRecords').apiName = call.apiName
                /\ Last(allRecords').method = call.method
                /\ Last(allRecords').endpoint = call.endpoint
                /\ Last(allRecords').status = call.response.status
                /\ \A i \in 1..Len(apiConfigs') :
                      apiConfigs'[i].ref = call.config =>
                          /\ Has(apiConfigs'[i].value, "lastUsed")
                          /\ apiConfigs'[i].value.lastUsed = Last(allRecords').timestamp
                /\ result'.op = "make_request"
                /\ ~result'.isError
                /\ result'.status = call.response.status
                /\ Has(result', "responseTime")]_vars

\* A step in which delete_api removed the configuration it was given
DeleteStep ==
    /\ Len(activityLog') = Len(activityLog) + 1
    /\ Last(activityLog').kind = "deleted"

\* A step in which the apis://stats resource was read
StatsStep ==
    /\ Len(activityLog') = Len(activityLog) + 1
    /\ Last(activityLog').kind = "resource"
    /\ Last(activityLog').uri = "apis://stats"

\* C12: delete_api on a name that is in the store removes that configuration
\* and no other, and leaves the other configurations and the whole ledger as
\* they were; the records of the deleted name stay in the ledger and are
\* counted by apis://stats.
C12_DeleteRemovesOnlyThatConfig ==
    [][/\ DeleteStep =>
            LET n == Last(activityLog').name
            IN  /\ MapHas(apiConfigs, n)
                /\ ~MapHas(apiConfigs', n)
                /\ apiConfigs' = SelectSeq(apiConfigs, LAMBDA e : e.key # n)
                /\ requestHistory' = requestHistory
       /\ StatsStep =>
            /\ requestHistory' = requestHistory
            /\ result'.stats.totalRequests = Len(requestHistory)
            /\ result'.stats.totalApis = Len(apiConfigs)]_vars

\* C12 witness: apis://stats was read after a delete_api that left another
\* configuration in the store, and it counts the records of the deleted name.
C12_Witness ==
    /\ result.op = "apis://stats"
    /\ apiConfigs # <<>>
    /\ \E i \in 1..Len(activityLog) :
          /\ activityLog[i].kind = "deleted"
          /\ ~MapHas(apiConfigs, activityLog[i].name)
          /\ UsageCount(requestHistory, activityLog[i].name) > 0
          /\ result.stats.totalRequests = Len(requestHistory)
          /\ result.stats.mostUsedApi = activityLog[i].name

\* A step in which the handler of fetch ran
FetchStep ==
    /\ Len(activityLog') = Len(activityLog) + 1
    /\ Last(activityLog').kind \in {"fetched", "fetch_error"}

\* C13: fetch returns the error document titled 'Document Not Found' and
\* changes neither the store nor the ledger when the id is 'api-' followed by
\* a name that is not in the store, or has neither the 'api-' nor the
\* 'endpoint-' prefix.
C13_FetchOfMissingIsNotFound ==
    [][(/\ FetchStep
        /\ LET id == Last(activityLog').id
           IN  \/ /\ StartsWith(id, API_PREFIX)
                  /\ ~MapHas(apiConfigs, DropPrefix(id, API_PREFIX))
               \/ /\ ~StartsWith(id, API_PREFIX)
                  /\ ~StartsWith(id, ENDPOINT_PREFIX))
        => /\ result'.op = "fetch"
           /\ result'.isError
           /\ result'.title = "Document Not Found"
           /\ apiConfigs' = apiConfigs
           /\ requestHistory' = requestHistory
           /\ calls' = calls]_vars

\* C13 witness: fetch of 'api-Gi' returned the error document after the
\* configuration was deleted, while the ledger still holds a record of it.
C13_Witness ==
    /\ result.op = "fetch"
    /\ result.isError
    /\ result.title = "Document Not Found"
    /\ result.id = API_PREFIX \o NameG
    /\ ~MapHas(apiConfigs, NameG)
    /\ UsageCount(requestHistory, NameG) > 0
    /\ \E i \in 1..Len(activityLog) :
          activityLog[i].kind = "deleted" /\ activityLog[i].name = NameG

\* A step in which the handler of search ran
SearchStep ==
    /\ Len(activityLog') = Len(activityLog) + 1
    /\ Last(activityLog').kind = "search"

\* Whether q occurs in s when the case of the letters is ignored
ContainsIgnoringCase(s, q) ==
    \E i \in 0..(Len(s) - Len(q)) :
        \A k \in 1..Len(q) : LowerChar(s[i + k]) = LowerChar(q[k])

\* Whether the results hold an entry with the id 'api-' + name
HasApiEntry(results, name) ==
    \E j \in 1..Len(results) : results[j].id = API_PREFIX \o name

\* C14 as stated: for every query q that is, ignoring case, a substring of
\* the name n of a stored configuration, search(q) returns a result with the
\* id 'api-' + n, for every content of the store and the ledger.
C14_NameMatchIsReturned ==
    [][SearchStep =>
        \A i \in 1..Len(apiConfigs) :
            ContainsIgnoringCase(apiConfigs[i].key, Last(activityLog').query) =>
                HasApiEntry(result'.results, apiConfigs[i].key)]_vars

\* C14 as amended: for every query q that is, ignoring case, a substring of
\* the name n of a stored configuration, search(q) returns a result with the
\* id 'api-' + n unless the cap is reached: a matching configuration is
\* missing only from a result list of exactly 10 entries.
C14_NameMatchIsReturnedUnlessCapped ==
    [][SearchStep =>
        \A i \in 1..Len(apiConfigs) :
            ContainsIgnoringCase(apiConfigs[i].key, Last(activityLog').query) =>
                \/ HasApiEntry(result'.results, apiConfigs[i].key)
                \/ Len(result'.results) = 10]_vars

\* C14 witness: search('gIT') over a store of fewer than 10 configurations,
\* among them 'Gitb' and 'Gitc', returned 'api-Gitb' and 'api-Gitc'.
C14_Witness ==
    /\ result.op = "search"
    /\ result.query = <<"g", "I", "T">>
    /\ Last(activityLog).kind = "search"
    /\ Len(apiConfigs) \in 2..9
    /\ Len(requestHistory) = 1
    /\ MapHas(apiConfigs, SearchName(2))
    /\ HasApiEntry(result.results, SearchName(2))
    /\ HasApiEntry(result.results, SearchName(3))

\* C15: search never returns more than 10 results, and no stored
\* configuration appears more than once among them as an 'api-' entry.
C15_SearchIsCapped ==
    result.op = "search" =>
        /\ Len(result.results) <= 10
        /\ \A i \in 1..Len(apiConfigs) :
              Cardinality({j \in 1..Len(result.results) :
                  result.results[j].id = API_PREFIX \o apiConfigs[i].key}) <= 1

\* C15 witness: a search over a store of more than 10 matching configurations
\* returned 10 results.
C15_Witness ==
    /\ result.op = "search"
    /\ Last(activityLog).kind = "search"
    /\ Len(apiConfigs) > 10
    /\ Len(SearchCandidates(result.query)) > 10
    /\ Len(result.results) = 10

Tools == {"save_api", "make_request", "list_apis", "get_api", "delete_api",
          "search", "fetch"}

\* A structured result of a tool: it names no thrown exception, it carries the
\* isError flag, and the flag is set exactly when it reports an error
StructuredResult(r) ==
    /\ Has(r, "op")
    /\ r.op \in Tools
    /\ Has(r, "isError")
    /\ r.isError \in BOOLEAN
    /\ r.isError <=> Has(r, "error")
    /\ ~Has(r, "thrown")

ListStep ==
    /\ Len(activityLog') = Len(activityLog) + 1
    /\ Last(activityLog').kind = "listed"

\* Whether the summary x has to come before the summary y: a used one before
\* a never-used one, the later lastUsed first, and on a tie (equal lastUsed,
\* or both never used) the later createdAt first
ListedBefore(x, y) ==
    IF Has(x, "lastUsed") /\ Has(y, "lastUsed")
    THEN \/ x.lastUsed > y.lastUsed
         \/ x.lastUsed = y.lastUsed /\ x.createdAt > y.createdAt
    ELSE IF Has(x, "lastUsed") THEN TRUE
    ELSE IF Has(y, "lastUsed") THEN FALSE
    ELSE x.createdAt > y.createdAt

\* C17: list_apis returns every stored configuration exactly once, ordered by
\* lastUsed descending, the never-used ones after the used ones, and ties
\* broken by createdAt descending, among the never-used ones and among the
\* ones with equal lastUsed.
C17_ListIsOrdered ==
    [][ListStep =>
        LET apis == result'.apis
        IN  /\ Len(apis) = Len(apiConfigs)
            /\ \A i \in 1..Len(apiConfigs) :
                  Cardinality({j \in 1..Len(apis) : apis[j].name = apiConfigs[i].key}) = 1
            /\ \A i, j \in 1..Len(apis) :
                  i < j => ~ListedBefore(apis[j], apis[i])]_vars

\* The id search gives to the endpoint of the record r
EndpointIdOf(r) ==
    ENDPOINT_PREFIX \o r.apiName \o <<"-">> \o SanitizeEndpoint(r.endpoint)

\* C18: for every 'endpoint-' id that search returned, fetch of that id,
\* while the configuration and the records are still there, returns the
\* endpoint document built from exactly the ledger records with that apiName
\* and endpoint, and not the error document; for every name and endpoint.
C18_SearchedEndpointIsFetched ==
    [][(FetchStep /\ result.op = "search") =>
        \A k \in 1..Len(result.results), n \in 1..Len(requestHistory) :
            LET id == result.results[k].id
                r == requestHistory[n]
                same == SelectSeq(requestHistory,
                            LAMBDA x : x.apiName = r.apiName /\ x.endpoint = r.endpoint)
            IN  (/\ id = Last(activityLog').id
                 /\ id = EndpointIdOf(r)
                 /\ MapHas(apiConfigs, r.apiName))
                => /\ ~result'.isError
                   /\ result'.document.type = "endpoint_info"
                   /\ result'.document.apiName = r.apiName
                   /\ result'.document.endpoint = r.endpoint
                   /\ result'.document.requestCount = Len(same)
                   /\ result'.document.recent =
                         SubSeq(same, (IF Len(same) > 5 THEN Len(same) - 4 ELSE 1),
                                Len(same))]_vars

\* C19: apis://stats is computed from the current ledger only and changes no
\* state: totalRequests is the ledger length, successfulRequests the number
\* of successful records, successRate round(100 * successful / total) and 0
\* for an empty ledger (within 0..100), averageResponseTime the rounded mean
\* and 0 when empty, mostUsedApi an apiName with the maximal record count and
\* 'none' when the ledger is empty, recentActivity the last min(10, n)
\* records in insertion order, totalApis the number of configurations.
C19_StatsFromLedger ==
    [][StatsStep =>
        LET h == requestHistory
            st == result'.stats
            n == IF Len(h) < 10 THEN Len(h) ELSE 10
        IN  /\ UNCHANGED <<apiConfigs, requestHistory, calls>>
            /\ st.totalApis = Len(apiConfigs)
            /\ st.totalRequests = Len(h)
            /\ st.successfulRequests = Cardinality({i \in 1..Len(h) : h[i].success})
            /\ st.successRate =
                  (IF Len(h) = 0 THEN 0
                   ELSE RoundDiv(100 * st.successfulRequests, Len(h)))
            /\ st.successRate \in 0..100
            /\ st.averageResponseTime =
                  (IF Len(h) = 0 THEN 0 ELSE RoundDiv(SumResponseTime(h), Len(h)))
            /\ IF Len(h) = 0 THEN st.mostUsedApi = NONE
               ELSE /\ \E i \in 1..Len(h) : h[i].apiName = st.mostUsedApi
                    /\ \A i \in 1..Len(h) :
                          UsageCount(h, h[i].apiName) <= UsageCount(h, st.mostUsedApi)
            /\ Len(st.recentActivity) = n
            /\ \A i \in 1..n :
                  LET r == h[Len(h) - n + i]
                      a == st.recentActivity[i]
                  IN  /\ a.apiName = r.apiName
                      /\ a.endpoint = r.endpoint
                      /\ a.timestamp = r.timestamp]_vars

\* Whether delete_api has removed a configuration named n
DeletedBefore(n) ==
    \E i \in 1..Len(activityLog) :
        activityLog[i].kind = "deleted" /\ activityLog[i].name = n

\* C20: after delete_api(n) succeeded, a save_api of the name n is not
\* refused as a duplicate, and when it succeeds the new configuration has
\* the newly supplied fields, a fresh createdAt and no lastUsed, while the
\* ledger records of the earlier configuration named n remain.
C20_RecreateAfterDelete ==
    [][(/\ SaveStep
        /\ DeletedBefore(Last(activityLog').name)
        /\ ~MapHas(apiConfigs, Last(activityLog').name)) =>
        LET n == Last(activityLog').name
        IN  /\ Last(activityLog').kind = "save_error"
                => Last(activityLog').error # "AlreadyExists"
            /\ Last(activityLog').kind = "saved"
                => /\ MapHas(apiConfigs', n)
                   /\ MapGet(apiConfigs', n) = NewConfig(supplied'[n])
                   /\ MapGet(apiConfigs', n).createdAt = clock
                   /\ ~Has(MapGet(apiConfigs', n), "lastUsed")
                   /\ requestHistory' = requestHistory]_vars

-----------------------------------------------------------------------------
(* Secrets and the activity log *)

\* The secret values among the inputs of save_api, and one more
SecretValues == {"tok", "tok2", "key", "pwd", "other"}

\* args with every secret it supplies replaced by v
WithSecrets(args, v) ==
    IF Has(args, "auth") /\ Has(args.auth, "credentials")
    THEN [args EXCEPT !.auth.credentials =
             [f \in DOMAIN @ |-> IF f \in SecretFields /\ @[f] # "" THEN v ELSE @[f]]]
    ELSE args

\* What save_api leaves in the store, the log and its reply when called with args
SaveOutcome(args) ==
    IF SaveError(args) = "ok"
    THEN << MapSet(apiConfigs, args.name, nextRef, ConfigAfterSanitize(NewConfig(args))),
            addToLog(activityLog,
                [kind |-> "saved", name |-> args.name, baseUrl |-> args.baseUrl]),
            [op |-> "save_api", isError |-> FALSE, name |-> args.name,
             config |-> sanitizeConfig(NewConfig(args))] >>
    ELSE << apiConfigs,
            addToLog(activityLog,
                [kind |-> "save_error", name |-> args.name, error |-> SaveError(args)]),
            [op |-> "save_api", isError |-> TRUE, name |-> args.name,
             error |-> SaveError(args)] >>

\* The parts of a log entry that are not times, counts or sequences of
\* characters taken from names, URLs and endpoints
EntryValues(e) ==
    {e[f] : f \in DOMAIN e \ {"ts", "count", "name", "baseUrl", "url", "apiName",
                               "query", "id"}}

\* C21: no activity-log entry contains the value of a token, apiKey or
\* password, and the log does not depend on the secret values: a save_api
\* with any other (non-empty) secret values in place of the supplied ones
\* leaves the same log, the same store and the same reply (save_api is the
\* only operation that takes secrets).
C21_LogIndependentOfSecrets ==
    [][Len(activityLog') = Len(activityLog) + 1 =>
        /\ EntryValues(Last(activityLog')) \cap SecretValues = {}
        /\ SaveStep =>
              \A args \in SecretSaveArgs :
                  SaveApi(args) =>
                      \A v \in SecretValues :
                          SaveOutcome(WithSecrets(args, v))
                              = <<apiConfigs', activityLog', result'>>]_vars

\* C21 witness: a configuration saved with a token has been used by a
\* request, so the log holds the entries of both operations.
C21_Witness ==
    \E i, j \in 1..Len(activityLog) :
        /\ activityLog[i].kind = "saved"
        /\ activityLog[j].kind = "executing"
        /\ activityLog[j].apiName = activityLog[i].name
        /\ Has(supplied, activityLog[i].name)
        /\ "token" \in SuppliedSecrets(activityLog[i].name)

\* A make_request step that dispatches a call
DispatchStep == Len(calls') = Len(calls) + 1

\* Whether config has an auth variant other than none with all the
\* credentials the variant requires
CompleteAuth(config) ==
    /\ HasCredentials(config)
    /\ \A f \in RequiredCredentials(config.auth.type) :
          Truthy(config.auth.credentials, f)
    /\ RequiredCredentials(config.auth.type) # {}

\* The name of the authentication header of config
InjectedName(config) ==
    IF config.auth.type = "api-key" THEN config.auth.credentials.headerName
    ELSE "Authorization"

\* The value of the authentication header of config
InjectedValue(config) ==
    LET credentials == config.auth.credentials
    IN  CASE config.auth.type = "bearer" -> "Bearer " \o credentials.token
          [] config.auth.type = "api-key" -> credentials.apiKey
          [] config.auth.type = "basic" ->
                "Basic " \o Base64(credentials.username \o ":" \o credentials.password)

\* C22: the headers of a dispatched request are layered, a later layer
\* winning on an equal name: Content-Type 'application/json', the default
\* headers of the configuration, the per-call headers, the authentication
\* header.  With complete credentials of a variant other than none the
\* authentication header has the injected value whatever the default and
\* per-call headers are; otherwise no header is injected.
C22_HeadersAreLayered ==
    [][DispatchStep =>
        \A args \in HeaderRequestArgs :
            MakeRequest(args) =>
                LET config == getApiConfig(args.apiName)
                    headers == Last(calls').options.headers
                    custom == IF Has(args, "headers") THEN args.headers ELSE <<>>
                    defaults == IF Has(config, "headers") THEN config.headers ELSE <<>>
                    injected == IF CompleteAuth(config) THEN {InjectedName(config)} ELSE {}
                IN  /\ DOMAIN headers =
                          {"Content-Type"} \cup DOMAIN defaults \cup DOMAIN custom
                              \cup injected
                    /\ \A k \in DOMAIN headers :
                          headers[k] =
                              IF k \in injected THEN InjectedValue(config)
                              ELSE IF k \in DOMAIN custom THEN custom[k]
                              ELSE IF k \in DOMAIN defaults THEN defaults[k]
                              ELSE "application/json"]_vars

\* C22 witness: a request was dispatched for a configuration with an api key
\* whose default headers name the key's header too, and the request carries
\* the key's header with the injected value, not the default one.
C22_Witness ==
    \E c \in 1..Len(calls) :
        /\ MapHas(apiConfigs, calls[c].apiName)
        /\ LET config == getApiConfig(calls[c].apiName)
           IN  /\ CompleteAuth(config)
               /\ config.auth.type = "api-key"
               /\ Has(config, "headers")
               /\ Has(config.headers, "X-Key")
               /\ calls[c].options.headers["X-Key"] = InjectedValue(config)
               /\ calls[c].options.headers["X-Key"] # config.headers["X-Key"]
               /\ calls[c].options.headers["Accept"] = "c"

\* C23: every record of the ledger has success = (200 <= status <= 299), and
\* the status of a record is the status code of the response received for
\* the call that appended it.
C23_SuccessIffStatus2xx ==
    [][/\ \A i \in 1..Len(requestHistory') :
             requestHistory'[i].success
                 <=> (200 <= requestHistory'[i].status /\ requestHistory'[i].status <= 299)
       /\ Len(allRecords') = Len(allRecords) + 1 =>
             \E c \in 1..Len(calls) :
                 /\ calls[c].pc = "parse"
                 /\ calls'[c].pc = "done"
                 /\ Last(allRecords').status = calls[c].response.status
                 /\ Last(requestHistory') = Last(allRecords')]_vars

\* C23 witness: the ledger holds a record of a response with status 299 and
\* one of a response with status 300.
C23_Witness ==
    \E i, j \in 1..Len(requestHistory) :
        /\ requestHistory[i].status = 299 /\ requestHistory[i].success
        /\ requestHistory[j].status = 300 /\ ~requestHistory[j].success

\* C24: every configuration is stored under its own name, so that no two
\* stored configurations share a name, and while a configuration is stored
\* (from its save_api to its delete_api) nothing of it changes but lastUsed.
C24_NameIsKeyAndConfigIsFixed ==
    [][/\ \A i \in 1..Len(apiConfigs') :
             /\ apiConfigs'[i].key = apiConfigs'[i].value.name
             /\ \A j \in 1..Len(apiConfigs') :
                   apiConfigs'[j].value.name = apiConfigs'[i].value.name => j = i
       /\ \A i \in 1..Len(apiConfigs), j \in 1..Len(apiConfigs') :
             apiConfigs'[j].ref = apiConfigs[i].ref =>
                 LET old == apiConfigs[i].value
                     new == apiConfigs'[j].value
                 IN  /\ apiConfigs'[j].key = apiConfigs[i].key
                     /\ DOMAIN new \ {"lastUsed"} = DOMAIN old \ {"lastUsed"}
                     /\ \A f \in DOMAIN old \ {"lastUsed"} : new[f] = old[f]]_vars

\* C24 witness: a stored configuration has been used after the millisecond
\* of its creation, while another configuration is stored as well.
C24_Witness ==
    /\ Len(apiConfigs) = 2
    /\ \E i \in 1..Len(apiConfigs) :
          /\ Has(apiConfigs[i].value, "lastUsed")
          /\ apiConfigs[i].value.lastUsed > apiConfigs[i].value.createdAt

\* C25: every stored configuration has a baseUrl that begins with 'http://'
\* or 'https://' and does not end with '/', whatever accepted input it was
\* saved with, one that ends in several slashes included.
C25_StoredBaseUrlIsNormalized ==
    \A i \in 1..Len(apiConfigs) :
        LET baseUrl == apiConfigs[i].value.baseUrl
        IN  /\ StartsWith(baseUrl, HTTP) \/ StartsWith(baseUrl, HTTPS)
            /\ Last(baseUrl) # "/"

\* C26: every stored configuration has a timeout that is a positive integer,
\* 30000 when save_api was given none and the supplied value otherwise, and
\* the deadline of a request is the stored timeout after its dispatch.
C26_TimeoutIsPositive ==
    /\ \A i \in 1..Len(apiConfigs) :
          LET config == apiConfigs[i].value
              args == supplied[apiConfigs[i].key]
          IN  /\ config.timeout \in Nat \ {0}
              /\ config.timeout = (IF Has(args, "timeout") THEN args.timeout ELSE 30000)
    /\ \A c \in 1..Len(calls), i \in 1..Len(apiConfigs) :
          apiConfigs[i].ref = calls[c].config =>
              calls[c].deadline = calls[c].startTime + apiConfigs[i].value.timeout

\* C27: every make_request eventually returns an outcome, also when the
\* remote stalls at any stage of the response: once dispatched, a call is
\* eventually done (with the response, a failure or the timeout outcome).
C27_EveryRequestReturns ==
    \A c \in 1..MaxLog :
        (Len(calls) >= c) ~> (Len(calls) >= c /\ calls[c].pc = "done")

\* C28: concurrent requests are independent.  Every dispatch adds one call
\* with a pending deadline timer of its own and leaves the other calls as
\* they are, and the firing of the deadline of one call changes neither
\* another call (its progress, its timer, the response it has received) nor
\* the ledger.
C28_CallsAreIndependent ==
    [][/\ DispatchStep =>
             /\ SubSeq(calls', 1, Len(calls)) = calls
             /\ Last(calls').timer = "pending"
             /\ Last(calls').pc = "fetch"
       /\ \A c \in 1..Len(calls) :
             (calls[c].timer = "pending" /\ calls'[c].timer = "fired") =>
                 /\ \A d \in 1..Len(calls) \ {c} : calls'[d] = calls[d]
                 /\ Len(calls') = Len(calls)
                 /\ requestHistory' = requestHistory
                 /\ apiConfigs' = apiConfigs]_vars

\* C28 witness: the deadline of one call has fired and ended it with the
\* timeout outcome while another call, dispatched before the deadline, is
\* still waiting for its response with its own timer pending.
C28_Witness ==
    \E c, d \in 1..Len(calls) :
        /\ calls[c].timer = "fired" /\ calls[c].pc = "done"
        /\ calls[d].pc = "fetch" /\ calls[d].timer = "pending"
        /\ calls[d].startTime < calls[c].deadline
        /\ Has(result, "call") /\ result.call = c
        /\ Has(result, "error") /\ result.error = "Timeout"

\* C29 as stated: make_request suspends at the outbound call only.  Once the
\* outbound call of a request has resolved, the store and the ledger change
\* by nothing but the bookkeeping of that request: no save_api, delete_api
\* or completion of another request comes between.
C29_OneSuspensionPoint ==
    [][\A c \in 1..Len(calls) :
          calls[c].pc = "parse" =>
              \/ apiConfigs' = apiConfigs /\ requestHistory' = requestHistory
              \/ calls'[c].pc = "done"]_vars

\* C29 amended: make_request suspends at the outbound call and again while
\* the body is read; once the body has been read, the update of lastUsed and
\* the append of the record are one step.  A record is appended only by a
\* step that completes a request and stamps lastUsed of the configuration
\* object of that request, if it is still stored, with the time of the
\* record; and lastUsed of a stored configuration changes only in a step
\* that appends a record of that time for its name.
C29_BookkeepingIsOneStep ==
    [][/\ Len(allRecords') = Len(allRecords) + 1 =>
             \E c \in 1..Len(calls) :
                 /\ calls[c].pc = "parse" /\ calls'[c].pc = "done"
                 /\ Last(allRecords').apiName = calls[c].apiName
                 /\ Last(requestHistory') = Last(allRecords')
                 /\ \A i \in 1..Len(apiConfigs') :
                       apiConfigs'[i].ref = calls[c].config =>
                           /\ Has(apiConfigs'[i].value, "lastUsed")
                           /\ apiConfigs'[i].value.lastUsed = Last(allRecords').timestamp
       /\ \A i \in 1..Len(apiConfigs), j \in 1..Len(apiConfigs') :
             (/\ apiConfigs'[j].ref = apiConfigs[i].ref
              /\ Has(apiConfigs'[j].value, "lastUsed")
              /\ Has(apiConfigs[i].value, "lastUsed")
                    => apiConfigs'[j].value.lastUsed # apiConfigs[i].value.lastUsed) =>
                 /\ Len(allRecords') = Len(allRecords) + 1
                 /\ Last(allRecords').timestamp = apiConfigs'[j].value.lastUsed
                 /\ Last(allRecords').apiName = apiConfigs'[j].key]_vars

\* C29 witness: a request has completed, its record is the last of the
\* ledger and its configuration carries the time of the record, while the
\* body of another request is still being read.
C29_Witness ==
    /\ requestHistory # <<>>
    /\ \E i \in 1..Len(apiConfigs) :
          /\ apiConfigs[i].key = Last(requestHistory).apiName
          /\ Has(apiConfigs[i].value, "lastUsed")
          /\ apiConfigs[i].value.lastUsed = Last(requestHistory).timestamp
    /\ \E c, d \in 1..Len(calls) : calls[c].pc = "done" /\ calls[d].pc = "parse"

\* The pairs of a name and an endpoint with a record of the ledger whose
\* endpoint or method contains q, case ignored
MatchingPairs(q) ==
    {<<requestHistory[i].apiName, requestHistory[i].endpoint>> :
        i \in {j \in 1..Len(requestHistory) :
                  \/ ContainsIgnoringCase(requestHistory[j].endpoint, q)
                  \/ ContainsIgnoringCase(Chars(requestHistory[j].method), q)}}

\* C30: for any query, each distinct pair of apiName and endpoint that has a
\* matching record yields exactly one 'endpoint-' entry, with the id
\* 'endpoint-' + apiName + '-' + the endpoint with '_' for every character
\* that is not alphanumeric: different pairs are not merged into one entry
\* and no pair yields two.  (Below the cap of 10 the results are the
\* candidates.)
C30_OneEntryPerPair ==
    [][SearchStep =>
        LET q == Last(activityLog').query
            entries == {k \in 1..Len(result'.results) :
                           StartsWith(result'.results[k].id, ENDPOINT_PREFIX)}
            pairs == MatchingPairs(q)
        IN  Len(result'.results) < 10 =>
                /\ Cardinality(entries) = Cardinality(pairs)
                /\ \A p \in pairs :
                      \E k \in entries :
                          /\ result'.results[k].id =
                                ENDPOINT_PREFIX \o p[1] \o <<"-">> \o SanitizeEndpoint(p[2])
                          /\ \E m \in {"GET", "POST"} :
                                result'.results[k].title =
                                    Chars(m) \o <<" ">> \o p[2] \o <<" ", "-", " ">>
                                        \o p[1] \o <<" ", "A", "P", "I">>]_vars

-----------------------------------------------------------------------------
(* The order and the cut of search *)

\* C31: the list search returns is ordered by title length, longest first,
\* and the cap of 10 is applied after the ordering: the returned entries are
\* candidates, min(10, number of candidates) of them, and for every length n
\* the candidates with a title longer than n are all returned, or 10 of them
\* are.
C31_LongestTitlesAreReturned ==
    [][SearchStep =>
        LET cand == SearchCandidates(Last(activityLog').query)
            res == result'.results
            longerRes(n) == Cardinality({i \in 1..Len(res) : Len(res[i].title) > n})
            longerCand(n) == Cardinality({j \in 1..Len(cand) : Len(cand[j].title) > n})
        IN  /\ \A i \in 1..(Len(res) - 1) : Len(res[i].title) >= Len(res[i + 1].title)
            /\ Len(res) = IF Len(cand) > 10 THEN 10 ELSE Len(cand)
            /\ \A i \in 1..Len(res) : \E j \in 1..Len(cand) : cand[j] = res[i]
            /\ \A n \in {0} \cup {Len(cand[j].title) : j \in 1..Len(cand)} :
                  longerRes(n) = IF longerCand(n) > 10 THEN 10 ELSE longerCand(n)]_vars

\* C31 (witness): a search has returned 10 of more than 10 candidates, with
\* titles of different lengths, and the last candidate is the first returned
C31_Witness ==
    /\ result.op = "search"
    /\ Len(result.results) = 10
    /\ Len(SearchCandidates(result.query)) > 10
    /\ Len(result.results[1].title) > Len(result.results[10].title)
    /\ result.results[1] = Last(SearchCandidates(result.query))

-----------------------------------------------------------------------------
(* fetch, search and the state *)

\* C32: fetch of the id 'endpoint-' + name + '-' + sanitized endpoint succeeds
\* whenever the ledger holds a record with that name and endpoint, also when
\* the configuration of that name has been deleted: only 'api-' ids need the
\* configuration.  (Stated for the names without '-' and the endpoints
\* without '_' or other characters that the id does not keep, see C18.)
C32_EndpointFetchNeedsOnlyRecords ==
    [][FetchStep =>
        \A n \in 1..Len(requestHistory) :
            LET r == requestHistory[n]
            IN  (/\ Last(activityLog').id = EndpointIdOf(r)
                 /\ r.apiName # <<>>
                 /\ \A i \in 1..Len(r.apiName) : r.apiName[i] # "-"
                 /\ SanitizeEndpoint(r.endpoint) = r.endpoint)
                => /\ ~result'.isError
                   /\ result'.document.type = "endpoint_info"]_vars

\* C33: search and fetch are read-only: for every query and every id, found
\* or not, they leave the set of stored configurations, every field of every
\* configuration (credentials and lastUsed included) and the ledger as they
\* were.
C33_SearchAndFetchReadOnly ==
    [][(SearchStep \/ FetchStep) =>
        /\ apiConfigs' = apiConfigs
        /\ requestHistory' = requestHistory]_vars

\* C33 (witness): a search and then a fetch have returned while the store
\* held a configuration with credentials and the ledger a record
C33_Witness ==
    /\ result.op = "fetch"
    /\ apiConfigs # <<>>
    /\ Has(apiConfigs[1].value, "auth")
    /\ requestHistory # <<>>
    /\ \E i \in 1..Len(activityLog) : activityLog[i].kind = "search"

-----------------------------------------------------------------------------
(* The request that is sent *)

\* C34: make_request sends a JSON payload exactly when the method is not GET
\* and a body argument was supplied, whatever the supplied value (false, 0,
\* the empty string and null included), and the payload is the JSON text of
\* the body; for GET or without a body it sends none.
C34_PayloadIffBodySupplied ==
    [][DispatchStep =>
        \A args \in BodyRequestArgs :
            MakeRequest(args) =>
                LET options == Last(calls').options
                    wanted == args.method # "GET" /\ Has(args, "body")
                IN  /\ Has(options, "body") <=> wanted
                    /\ wanted => options.body = "JSON:" \o args.body]_vars

\* The URL a request for endpoint with the parameters params is to have: the
\* base without its trailing slash, a slash, the endpoint without its leading
\* slash, and a query part only for parameters with a value
ExpectedUrl(base, endpoint, params) ==
    LET given == SelectSeq(params, LAMBDA p : ~p.nullish)
        pairs == [i \in 1..Len(given) |-> given[i].key \o <<"=">> \o given[i].value]
    IN  (IF base # <<>> /\ Last(base) = "/" THEN SubSeq(base, 1, Len(base) - 1)
         ELSE base)
        \o <<"/">>
        \o (IF endpoint # <<>> /\ Head(endpoint) = "/" THEN Tail(endpoint) ELSE endpoint)
        \o (IF given = <<>> THEN <<>> ELSE <<"?">> \o Join(pairs, <<"&">>))

\* C35: the URL of a request is the base without trailing slash, then the
\* endpoint with one leading slash, then a query string with one key=value
\* pair for each parameter whose value is neither null nor undefined, in the
\* caller's order; when no parameter has such a value, for want of
\* parameters or because all values are null, the URL has no query part.
C35_UrlOfRequest ==
    [][DispatchStep =>
        \A args \in ParamRequestArgs :
            MakeRequest(args) =>
                Last(calls').url =
                    ExpectedUrl(getApiConfig(args.apiName).baseUrl, args.endpoint,
                                IF Has(args, "queryParams") THEN args.queryParams
                                ELSE <<>>)]_vars

-----------------------------------------------------------------------------
(* Calls in flight and the store *)

\* A completion of make_request that appends a record to the ledger
RecordStep == Len(allRecords') = Len(allRecords) + 1

\* C36: whenever a completion of make_request appends a record for the name
\* n while a configuration named n is in the store, that configuration's
\* lastUsed is the timestamp of the record afterwards, also when n has been
\* deleted and saved again while the call was in flight.
C36_LastUsedFollowsRecord ==
    [][RecordStep =>
        LET record == Last(allRecords')
        IN  MapHas(apiConfigs', record.apiName) =>
                LET config == MapGet(apiConfigs', record.apiName)
                IN  /\ Has(config, "lastUsed")
                    /\ config.lastUsed = record.timestamp]_vars

\* C37: a make_request whose configuration is deleted while the call is in
\* flight is not cancelled: when the HTTP response has arrived, the call
\* returns the normal result and appends one record with the deleted name,
\* and its completion leaves the store as it is, without the deleted
\* configuration.
C37_DeletedInFlightStillCompletes ==
    [][\A c \in 1..Len(calls) :
          (/\ calls[c].pc = "parse"
           /\ calls'[c].pc = "done"
           /\ \A i \in 1..Len(apiConfigs) : apiConfigs[i].ref # calls[c].config)
          => /\ ~result'.isError
             /\ result'.status = calls[c].response.status
             /\ Len(allRecords') = Len(allRecords) + 1
             /\ Last(allRecords').apiName = calls[c].apiName
             /\ Last(requestHistory') = Last(allRecords')
             /\ apiConfigs' = apiConfigs]_vars

\* C38: the timestamps of the records do not decrease along the ledger, and
\* the timestamp of a record is the time at which its call completed, not
\* the time of its dispatch: with calls that overlap, the ledger is in the
\* order in which the bodies of the responses were read.
C38_LedgerInCompletionOrder ==
    [][/\ \A i \in 1..(Len(requestHistory') - 1) :
             requestHistory'[i].timestamp <= requestHistory'[i + 1].timestamp
       /\ RecordStep =>
             /\ Last(allRecords').timestamp = clock'
             /\ Last(requestHistory') = Last(allRecords')
             /\ \A i \in 1..Len(requestHistory) :
                   requestHistory[i].timestamp <= Last(requestHistory').timestamp
             /\ \E c \in 1..Len(calls) :
                   /\ calls[c].pc = "parse" /\ calls'[c].pc = "done"
                   /\ Last(allRecords').apiName = calls[c].apiName
                   /\ Last(allRecords').responseTime = clock' - calls[c].startTime]_vars

\* C38 (witness): of two calls that overlapped, the one dispatched first has
\* completed last, a millisecond after its dispatch, and its record is the
\* last of the ledger with the later timestamp
C38_Witness ==
    /\ Len(calls) = 2 /\ Len(requestHistory) = 2
    /\ calls[1].pc = "done" /\ calls[2].pc = "done"
    /\ Has(result, "call") /\ result.call = 1 /\ ~result.isError
    /\ requestHistory[2].timestamp > calls[1].startTime
    /\ requestHistory[1].timestamp < requestHistory[2].timestamp
    /\ requestHistory[1].timestamp < calls[1].deadline

-----------------------------------------------------------------------------
(* The ids of search *)

\* C39: the ids in one list of search results are pairwise distinct, for
\* every query, store and ledger, also for two endpoints of one API that
\* differ only in characters that are not alphanumeric.
C39_SearchIdsAreDistinct ==
    [][SearchStep =>
        \A i, j \in 1..Len(result'.results) :
            result'.results[i].id = result'.results[j].id => i = j]_vars

-----------------------------------------------------------------------------
(* The deadline timer *)

\* C40: when a make_request has returned, by whatever path (HTTP response,
\* timeout, transport failure, failure to parse the body), its deadline timer
\* is not pending any more: it has been cleared or it has fired.
C40_NoTimerOutlivesItsCall ==
    \A c \in 1..Len(calls) :
        calls[c].pc = "done" => calls[c].timer \in {"cleared", "fired"}

====
